---- MODULE Spec2Model ----
(***************************************************************************)
(* Chat2Carpool: the matching engine (matching_service.py), the match      *)
(* lifecycle (db_service.py behind the endpoints of main.py) and the       *)
(* conversation sessions (llm_service.py, memory_manager.py).              *)
(*                                                                         *)
(* Python strings whose characters matter (locations, times) are sequences *)
(* of one-character strings; dates, user ids and intents are only compared *)
(* for equality and are TLA+ strings.  Scores are exact rationals [n, d].  *)
(***************************************************************************)
EXTENDS Integers, Sequences, FiniteSets, TLC

VARIABLES
    requests,   \* table ride_requests: sequence of rows, id = index
    offers,     \* table ride_offers: sequence of rows, id = index
    matches,    \* table matches: sequence of rows, id = index
    loop,       \* the handler the asyncio event loop is running, or NoHandler
    pc,         \* per handler: "idle", "queued", "loaded", "done"
    call,       \* per handler: the endpoint call [op, match_id, user_id]
    snap,       \* per handler: the rows its ORM session loaded
    result,     \* per handler: what the call returned
    sessions,   \* MemoryManager.sessions
    reply,      \* what the last process_message turn returned
    now,        \* datetime.now(), in minutes since the start
    mReq,       \* matching engine inputs and output (SpecMatch)
    mPool,
    mResult

dbVars == <<requests, offers, matches>>
handlerVars == <<loop, pc, call, snap, result>>
sessionVars == <<sessions, reply, now>>
matchVars == <<mReq, mPool, mResult>>
vars == <<requests, offers, matches, loop, pc, call, snap, result,
          sessions, reply, now, mReq, mPool, mResult>>

\* Python's None for an index; an optional value is <<>> (None) or <<v>>
NoIndex == -1
None == <<>>
Some(v) == <<v>>

-----------------------------------------------------------------------------
(* Python str operations on sequences of characters *)

UpperChars == <<"A","B","C","D","E","F","G","H","I","J","K","L","M",
                "N","O","P","Q","R","S","T","U","V","W","X","Y","Z">>
LowerChars == <<"a","b","c","d","e","f","g","h","i","j","k","l","m",
                "n","o","p","q","r","s","t","u","v","w","x","y","z">>

LowerChar(c) ==
    IF \E i \in 1..Len(UpperChars) : UpperChars[i] = c
    THEN LowerChars[CHOOSE i \in 1..Len(UpperChars) : UpperChars[i] = c]
    ELSE c

Lower(s) == [i \in 1..Len(s) |-> LowerChar(s[i])]

RECURSIVE LStrip(_)
LStrip(s) == IF s # <<>> /\ Head(s) = " " THEN LStrip(Tail(s)) ELSE s

RECURSIVE RStrip(_)
RStrip(s) ==
    IF s # <<>> /\ s[Len(s)] = " " THEN RStrip(SubSeq(s, 1, Len(s) - 1)) ELSE s

Strip(s) == RStrip(LStrip(s))

\* str.replace("  ", " "): one left-to-right pass over non-overlapping pairs
RECURSIVE ReplaceDoubleSpace(_)
ReplaceDoubleSpace(s) ==
    IF Len(s) < 2 THEN s
    ELSE IF s[1] = " " /\ s[2] = " "
         THEN <<" ">> \o ReplaceDoubleSpace(SubSeq(s, 3, Len(s)))
         ELSE <<s[1]>> \o ReplaceDoubleSpace(Tail(s))

\* Python "a in b" on strings
Contains(a, b) ==
    \E i \in 0..(Len(b) - Len(a)) : SubSeq(b, i + 1, i + Len(a)) = a

-----------------------------------------------------------------------------
(* exact rationals for the float scores *)

RECURSIVE GCD(_, _)
GCD(a, b) == IF b = 0 THEN a ELSE GCD(b, a % b)

Frac(n, d) == LET g == GCD(n, d) IN [n |-> n \div g, d |-> d \div g]
FAdd(a, b) == Frac(a.n * b.d + b.n * a.d, a.d * b.d)
FMul(a, b) == Frac(a.n * b.n, a.d * b.d)
FLess(a, b) == a.n * b.d < b.n * a.d
Zero == Frac(0, 1)
One == Frac(1, 1)

-----------------------------------------------------------------------------
(* matching_service.py *)

normalize_location(location) == ReplaceDoubleSpace(Strip(Lower(location)))

\* as check_exact_match, comparing the raw strings (no normalize_location)
check_exact_match_raw(request, offer) ==
    /\ request.pickup_location = offer.pickup_location
    /\ request.drop_location = offer.drop_location

check_exact_match(request, offer) ==
    LET req_pickup == normalize_location(request.pickup_location)
        req_drop == normalize_location(request.drop_location)
        off_pickup == normalize_location(offer.pickup_location)
        off_drop == normalize_location(offer.drop_location)
    IN  req_pickup = off_pickup /\ req_drop = off_drop

\* as FirstStopIndex, a stop matching only when it equals the location
FirstStopIndex_equal(offer_route, loc_norm) ==
    LET hits == {i \in 1..Len(offer_route) : offer_route[i] = loc_norm}
    IN  IF hits = {} THEN NoIndex
        ELSE (CHOOSE i \in hits : \A j \in hits : i <= j) - 1

\* the for/break loops of check_route_alignment: the first 0-based index whose
\* stop contains, or is contained in, the location; NoIndex when the loop ends
FirstStopIndex(offer_route, loc_norm) ==
    LET hits == {i \in 1..Len(offer_route) :
                    Contains(loc_norm, offer_route[i])
                    \/ Contains(offer_route[i], loc_norm)}
    IN  IF hits = {} THEN NoIndex
        ELSE (CHOOSE i \in hits : \A j \in hits : i <= j) - 1

\* not offer.route or len(offer.route) < 2 (a null route is the empty sequence)
NoRoute(route) == Len(route) < 2

\* check_route_alignment once both indices are found
AlignmentAt(offer_route, pickup_index, drop_index) ==
    IF pickup_index # NoIndex /\ drop_index # NoIndex
       /\ pickup_index < drop_index
    THEN LET route_length == Len(offer_route) - 1
             segment_length == drop_index - pickup_index
             coverage_ratio == Frac(segment_length, route_length)
             score == FAdd(Frac(7, 10), FMul(Frac(3, 10), coverage_ratio))
         IN  IF pickup_index = 0 /\ drop_index = Len(offer_route) - 1
             THEN [is_aligned |-> TRUE, match_type |-> "exact_route",
                   score |-> One]
             ELSE [is_aligned |-> TRUE, match_type |-> "partial_route",
                   score |-> score]
    ELSE [is_aligned |-> FALSE, match_type |-> "no_match", score |-> Zero]

\* the two index loops on the normalized route
AlignOnRoute(offer_route, req_pickup_norm, req_drop_norm) ==
    AlignmentAt(offer_route,
                FirstStopIndex(offer_route, req_pickup_norm),
                FirstStopIndex(offer_route, req_drop_norm))

check_route_alignment(request, offer) ==
    IF NoRoute(offer.route)
    THEN IF check_exact_match(request, offer)
         THEN [is_aligned |-> TRUE, match_type |-> "exact", score |-> One]
         ELSE [is_aligned |-> FALSE, match_type |-> "no_match", score |-> Zero]
    ELSE AlignOnRoute([i \in 1..Len(offer.route) |->
                          normalize_location(offer.route[i])],
                      normalize_location(request.pickup_location),
                      normalize_location(request.drop_location))

\* the keyword lists of time_periods, in dictionary order
MorningKeywords ==
    << <<"m","o","r","n","i","n","g">>, <<"a","m">>, <<"6","a","m">>,
       <<"7","a","m">>, <<"8","a","m">>, <<"9","a","m">>, <<"1","0","a","m">> >>
AfternoonKeywords ==
    << <<"a","f","t","e","r","n","o","o","n">>, <<"1","2","p","m">>,
       <<"1","p","m">>, <<"2","p","m">>, <<"3","p","m">>, <<"4","p","m">> >>
EveningKeywords ==
    << <<"e","v","e","n","i","n","g">>, <<"5","p","m">>, <<"6","p","m">>,
       <<"7","p","m">>, <<"8","p","m">>, <<"9","p","m">> >>
time_periods == <<MorningKeywords, AfternoonKeywords, EveningKeywords>>

AnyKeywordIn(keywords, t) ==
    \E k \in 1..Len(keywords) : Contains(keywords[k], t)

\* a time score that knows no period of the day
TimeScore_exactOnly(req_time_lower, off_time_lower) ==
    IF req_time_lower = off_time_lower THEN One ELSE Frac(6, 10)

\* check_time_compatibility on the lower-cased, trimmed times
TimeScore(req_time_lower, off_time_lower) ==
    IF req_time_lower = off_time_lower THEN One
    ELSE IF \E p \in 1..Len(time_periods) :
                /\ AnyKeywordIn(time_periods[p], req_time_lower)
                /\ AnyKeywordIn(time_periods[p], off_time_lower)
         THEN Frac(8, 10)
         ELSE Frac(6, 10)

check_time_compatibility(request_time, offer_time) ==
    TimeScore(Strip(Lower(request_time)), Strip(Lower(offer_time)))

\* round(x, 3) of a double.  Away from a decimal midpoint this is the nearest
\* thousandth.  At a midpoint the binary value of 0.7*loc + 0.3*time decides:
\* of the midpoints the scores above can produce with routes of up to 8 stops
\* (loc 0.775 or 0.925), CPython rounds up only 0.7*0.925 + 0.3*1.0.
MidpointRoundsUp(location_score, time_score) ==
    location_score = Frac(925, 1000) /\ time_score = One

Round3(x, up) ==
    LET twice == (2000 * x.n) \div x.d
        exactHalf == (2000 * x.n) % x.d = 0 /\ twice % 2 = 1
    IN  IF exactHalf /\ ~up THEN Frac((twice - 1) \div 2, 1000)
        ELSE Frac((twice + 1) \div 2, 1000)

calculate_match_score(location_score, time_score) ==
    LET overall_score == FAdd(FMul(Frac(7, 10), location_score),
                              FMul(Frac(3, 10), time_score))
    IN  Round3(overall_score, MidpointRoundsUp(location_score, time_score))

\* list.sort(key=overall_score, reverse=True): stable, best first
RECURSIVE InsertByScore(_, _)
InsertByScore(sorted, m) ==
    IF sorted = <<>> THEN <<m>>
    ELSE IF FLess(Head(sorted).overall_score, m.overall_score)
         THEN <<m>> \o sorted
         ELSE <<Head(sorted)>> \o InsertByScore(Tail(sorted), m)

RECURSIVE SortByScore(_)
SortByScore(ms) ==
    IF ms = <<>> THEN <<>>
    ELSE InsertByScore(SortByScore(SubSeq(ms, 1, Len(ms) - 1)), ms[Len(ms)])

\* as MatchOfOffer, without the two pre-filters (date, seats)
\* the match dict find_matches appends for an aligned offer
MatchDict(offer, route_match, time_score) ==
    IF ~route_match.is_aligned THEN <<>>
    ELSE << [offer_id |-> offer.id,
             match_type |-> route_match.match_type,
             location_score |-> route_match.score,
             time_score |-> time_score,
             overall_score |-> calculate_match_score(route_match.score, time_score),
             remaining_seats |-> offer.available_seats - offer.seats_filled] >>

MatchOfOffer_unfiltered(request, offer) ==
    MatchDict(offer, check_route_alignment(request, offer),
              check_time_compatibility(request.time, offer.time))

\* the loop body of find_matches for one offer: <<>> when it is skipped
MatchOfOffer(request, offer) ==
    IF request.date # offer.date THEN <<>>
    ELSE IF offer.available_seats - offer.seats_filled < request.passengers
    THEN <<>>
    ELSE MatchDict(offer, check_route_alignment(request, offer),
                   check_time_compatibility(request.time, offer.time))

RECURSIVE CollectMatches(_, _)
CollectMatches(request, available_offers) ==
    IF available_offers = <<>> THEN <<>>
    ELSE MatchOfOffer(request, Head(available_offers))
         \o CollectMatches(request, Tail(available_offers))

\* the matches in the order of the pool, the sort left out
find_matches_unsorted(request, available_offers) ==
    CollectMatches(request, available_offers)

find_matches(request, available_offers) ==
    SortByScore(CollectMatches(request, available_offers))

-----------------------------------------------------------------------------
(* the strings the inputs are drawn from *)

S_FAST == <<"F","A","S","T">>
S_DrighRoad == <<"D","r","i","g","h"," ","R","o","a","d">>
S_Millennium == <<"M","i","l","l","e","n","n","i","u","m">>
S_GulshanChowrangi == <<"G","u","l","s","h","a","n"," ","C","h","o","w","r","a","n","g","i">>
S_SohrabGoth == <<"S","o","h","r","a","b"," ","G","o","t","h">>
S_Gulshan == <<"g","u","l","s","h","a","n">>
S_fastPadded == <<" ","f","a","s","t"," ">>
S_DHA == <<"D","H","A">>
S_dha == <<"d","h","a">>
S_Airport == <<"A","i","r","p","o","r","t">>
S_airport == <<"a","i","r","p","o","r","t">>
S_DhaPhase2 == <<"D","H","A"," "," ","P","h","a","s","e">>
S_dhaPhase1 == <<"d","h","a"," ","p","h","a","s","e">>
T_5pm == <<"5","p","m">>
T_5PM == <<"5","P","M"," ">>
T_6pm == <<"6","p","m">>
T_8am == <<"8","a","m">>
T_noon == <<"n","o","o","n">>
T_Morning == <<"M","o","r","n","i","n","g">>

Route5 == <<S_FAST, S_DrighRoad, S_Millennium, S_GulshanChowrangi, S_SohrabGoth>>

Dates == {"today", "tomorrow"}

-----------------------------------------------------------------------------
(* rows of the three tables (database.py) *)

RequestRow(id, user_id, pickup, drop, route, date, time, passengers) ==
    [id |-> id, user_id |-> user_id,
     pickup_location |-> pickup, drop_location |-> drop, route |-> route,
     date |-> date, time |-> time, passengers |-> passengers,
     is_active |-> TRUE, is_matched |-> FALSE, matched_with |-> 0]

OfferRow(id, user_id, pickup, drop, route, date, time, available_seats) ==
    [id |-> id, user_id |-> user_id,
     pickup_location |-> pickup, drop_location |-> drop, route |-> route,
     date |-> date, time |-> time, available_seats |-> available_seats,
     is_active |-> TRUE, seats_filled |-> 0]

MatchRow(id, request_id, offer_id, match_type, match_score) ==
    [id |-> id, request_id |-> request_id, offer_id |-> offer_id,
     match_type |-> match_type, match_score |-> match_score,
     status |-> "pending"]

-----------------------------------------------------------------------------
(* SpecAlign: check_route_alignment on one request and one offer *)

MaxStops == 5

RouteStops == {S_FAST, S_DrighRoad, S_Millennium, S_GulshanChowrangi,
               S_SohrabGoth, S_Gulshan}

\* routes without a repeated stop, of up to MaxStops stops (<<>>: no route)
Routes ==
    {r \in UNION {[1..k -> RouteStops] : k \in 0..MaxStops} :
        \A i, j \in DOMAIN r : r[i] = r[j] => i = j}

AlignLocs == {S_FAST, S_DrighRoad, S_GulshanChowrangi, S_SohrabGoth,
              S_Gulshan, S_fastPadded, S_DHA}

AlignRequests ==
    {RequestRow(1, "u1", p, d, <<>>, "today", T_5pm, 1) :
        p \in AlignLocs, d \in AlignLocs}

AlignOffers ==
    {OfferRow(1, "u2", S_FAST, S_SohrabGoth, r, "today", T_5pm, 2) :
        r \in Routes}

NotRun == [run |-> FALSE, value |-> <<>>]
Ran(v) == [run |-> TRUE, value |-> v]

DbIdle == requests = <<>> /\ offers = <<>> /\ matches = <<>>
HandlersIdle ==
    loop = "" /\ pc = <<>> /\ call = <<>> /\ snap = <<>> /\ result = <<>>
SessionsIdle == sessions = <<>> /\ reply = <<>> /\ now = 0
MatchIdle == mReq = <<>> /\ mPool = <<>> /\ mResult = NotRun

AlignInit ==
    /\ mReq \in AlignRequests
    /\ mPool \in {<<o>> : o \in AlignOffers}
    /\ mResult = NotRun
    /\ DbIdle /\ HandlersIdle /\ SessionsIdle

Align ==
    /\ ~mResult.run
    /\ mResult' = Ran(check_route_alignment(mReq, mPool[1]))
    /\ UNCHANGED <<mReq, mPool, dbVars, handlerVars, sessionVars>>

AlignNext == Align

SpecAlign == AlignInit /\ [][AlignNext]_vars

\* the route indices (1-based) whose normalized stop contains, or is contained
\* in, the normalized location
StopHits(route, loc) ==
    {i \in 1..Len(route) :
        \/ Contains(normalize_location(loc), normalize_location(route[i]))
        \/ Contains(normalize_location(route[i]), normalize_location(loc))}

Least(S) == CHOOSE i \in S : \A j \in S : i <= j

\* C7: on a route of at least 2 stops, with pickupIndex and dropIndex the first
\* indices whose stop contains or is contained in the request's pickup and
\* drop: a match only when both exist and pickupIndex < dropIndex; exact_route
\* with score 1 when they are the first and the last stop; otherwise
\* partial_route with score 0.7 + 0.3 * (dropIndex - pickupIndex) / (length - 1),
\* which is 0.85 for Drigh Road -> Gulshan Chowrangi on the 5-stop route; in
\* every other case no_match with score 0.
RouteAlignmentScore ==
    (mResult.run /\ Len(mPool[1].route) >= 2) =>
        LET route == mPool[1].route
            P == StopHits(route, mReq.pickup_location)
            D == StopHits(route, mReq.drop_location)
            v == mResult.value
        IN  /\ IF P # {} /\ D # {} /\ Least(P) < Least(D)
               THEN /\ v.is_aligned
                    /\ IF Least(P) = 1 /\ Least(D) = Len(route)
                       THEN v.match_type = "exact_route" /\ v.score = One
                       ELSE /\ v.match_type = "partial_route"
                            /\ v.score.n * 10 * (Len(route) - 1)
                                 = v.score.d * (7 * (Len(route) - 1)
                                                + 3 * (Least(D) - Least(P)))
               ELSE /\ ~v.is_aligned
                    /\ v.match_type = "no_match"
                    /\ v.score = Zero
            /\ (/\ route = Route5
                /\ mReq.pickup_location = S_DrighRoad
                /\ mReq.drop_location = S_GulshanChowrangi)
               => v.match_type = "partial_route" /\ v.score = Frac(85, 100)

\* C7 witness: the 5-stop example has been aligned as partial_route
RouteAlignmentScoreWitness ==
    /\ mResult.run
    /\ mPool[1].route = Route5
    /\ mReq.pickup_location = S_DrighRoad
    /\ mReq.drop_location = S_GulshanChowrangi
    /\ mResult.value.match_type = "partial_route"

-----------------------------------------------------------------------------
(* SpecMatch: find_matches on one request and a pool of offers *)

MaxPool == 2
MaxPassengers == 2

\* <<pickup, drop>> of the requests
RequestEnds == {<<S_DHA, S_Airport>>, <<S_DhaPhase2, S_Airport>>,
                <<S_DrighRoad, S_GulshanChowrangi>>}

\* <<pickup, drop, route>> of the offers
OfferShapes == {<<S_dha, S_airport, <<>> >>, <<S_dhaPhase1, S_airport, <<>> >>,
                <<S_dha, S_airport, <<S_dha>> >>, <<S_FAST, S_SohrabGoth, Route5>>}

\* <<available_seats, seats_filled>> of the offers
OfferSeats == {<<4, 0>>, <<2, 1>>}

MatchRequests ==
    {RequestRow(1, "u1", e[1], e[2], <<>>, d, T_5pm, p) :
        e \in RequestEnds, d \in Dates, p \in 1..MaxPassengers}

PoolOffers ==
    {[OfferRow(0, "u2", sh[1], sh[2], sh[3], d, t, st[1])
        EXCEPT !.seats_filled = st[2]] :
        sh \in OfferShapes, d \in Dates, t \in {T_5pm, T_6pm}, st \in OfferSeats}

MatchInit ==
    /\ mReq \in MatchRequests
    /\ mPool \in UNION {[1..k -> PoolOffers] : k \in 0..MaxPool}
    /\ mResult = NotRun
    /\ DbIdle /\ HandlersIdle /\ SessionsIdle

\* the pool as find_matches receives it: rows with distinct ids
PoolRows == [i \in 1..Len(mPool) |-> [mPool[i] EXCEPT !.id = i]]

FindMatches ==
    /\ ~mResult.run
    /\ mResult' = Ran(find_matches(mReq, PoolRows))
    /\ UNCHANGED <<mReq, mPool, dbVars, handlerVars, sessionVars>>

MatchNext == FindMatches

SpecMatch == MatchInit /\ [][MatchNext]_vars


Returned(i) == \E k \in 1..Len(mResult.value) : mResult.value[k].offer_id = i
MatchFor(i) ==
    mResult.value[CHOOSE k \in 1..Len(mResult.value) :
                      mResult.value[k].offer_id = i]
SeatsSuffice(o) == o.available_seats - o.seats_filled >= mReq.passengers

\* C6: find_matches returns no offer of another date than the request's and
\* no offer whose remaining seats are fewer than the request's passengers.
MatchesPassPreFilters ==
    mResult.run =>
        \A k \in 1..Len(mResult.value) :
            LET o == PoolRows[mResult.value[k].offer_id]
            IN  o.date = mReq.date /\ SeatsSuffice(o)

\* C6 witness: a pool holding an offer of another date and an offer without
\* enough seats, both aligned with the request, and one offer that is returned
MatchesPassPreFiltersWitness ==
    /\ mResult.run
    /\ Len(mResult.value) = 1
    /\ Len(mPool) = 2
    /\ \E i \in 1..Len(mPool) :
          /\ check_route_alignment(mReq, mPool[i]).is_aligned
          /\ mPool[i].date # mReq.date \/ ~SeatsSuffice(mPool[i])

LowerTrim(s) == Strip(Lower(s))

\* what C8 says of an offer without a usable route, for a given comparison of
\* the end points
ExactFallback(sameEnds(_, _)) ==
    mResult.run =>
        \A i \in 1..Len(mPool) :
            LET o == mPool[i]
            IN  NoRoute(o.route) =>
                  /\ Returned(i) <=> /\ o.date = mReq.date
                                     /\ SeatsSuffice(o)
                                     /\ sameEnds(mReq, o)
                  /\ Returned(i) =>
                        /\ MatchFor(i).match_type = "exact"
                        /\ MatchFor(i).location_score = One
                        /\ mReq.time = o.time => MatchFor(i).overall_score = One

SameEndsLowerTrim(r, o) ==
    /\ LowerTrim(r.pickup_location) = LowerTrim(o.pickup_location)
    /\ LowerTrim(r.drop_location) = LowerTrim(o.drop_location)

SameEndsNormalized(r, o) ==
    /\ normalize_location(r.pickup_location) = normalize_location(o.pickup_location)
    /\ normalize_location(r.drop_location) = normalize_location(o.drop_location)

\* C8 as stated: an offer with no route, or a route of fewer than 2 stops, is
\* returned exactly when (date and seats allowing) its pickup and drop equal
\* the request's after lower-casing and trimming; it is then of type exact with
\* location score 1.0, and overall score 1.0 when the times are equal too.
ExactFallbackLowerTrim == ExactFallback(SameEndsLowerTrim)

\* C8 amended: the same, the end points being compared after lower-casing,
\* trimming and replacing each pair of adjacent spaces by one space.
ExactFallbackNormalized == ExactFallback(SameEndsNormalized)

\* C8 witness: DHA -> Airport today 5pm for 2 against dha -> airport today 5pm
\* with 4 free seats is returned as exact with overall score 1.0
ExactFallbackWitness ==
    /\ mResult.run
    /\ mReq.pickup_location = S_DHA /\ mReq.drop_location = S_Airport
    /\ mReq.date = "today" /\ mReq.time = T_5pm /\ mReq.passengers = 2
    /\ Len(mPool) = 1
    /\ mPool[1].pickup_location = S_dha /\ mPool[1].drop_location = S_airport
    /\ mPool[1].route = <<>>
    /\ mPool[1].date = "today" /\ mPool[1].time = T_5pm
    /\ mPool[1].available_seats = 4 /\ mPool[1].seats_filled = 0
    /\ Len(mResult.value) = 1
    /\ mResult.value[1].match_type = "exact"
    /\ mResult.value[1].overall_score = One

\* C24: the list find_matches returns is sorted by overall_score in
\* descending order, and two matches of equal overall_score appear in the
\* order of their offers in the pool (offer ids are pool positions)
SortedStable ==
    mResult.run =>
        \A k \in 1..(Len(mResult.value) - 1) :
            LET a == mResult.value[k]
                b == mResult.value[k + 1]
            IN  /\ ~FLess(a.overall_score, b.overall_score)
                /\ a.overall_score = b.overall_score => a.offer_id < b.offer_id

\* C24 witness: two offers are returned, the second of the pool first because
\* it scores higher
SortedStableWitness ==
    /\ mResult.run
    /\ Len(mResult.value) = 2
    /\ mResult.value[1].offer_id = 2 /\ mResult.value[2].offer_id = 1
    /\ FLess(mResult.value[2].overall_score, mResult.value[1].overall_score)

\* two offers of equal score are returned in the order of the pool
SortedStableTie ==
    /\ mResult.run
    /\ Len(mResult.value) = 2
    /\ mResult.value[1].overall_score = mResult.value[2].overall_score
    /\ mResult.value[1].offer_id = 1

-----------------------------------------------------------------------------
(* SpecScore: find_matches on one request and one offer, the two times      *)
(* drawn from strings that are equal, equal after lower-casing and          *)
(* trimming, of the same period of the day, of different periods, or of no  *)
(* period                                                                   *)

TimeStrings == {T_5pm, T_5PM, T_6pm, T_8am, T_noon, T_Morning}

ScoreRequests ==
    {RequestRow(1, "u1", e[1], e[2], <<>>, "today", t, 1) :
        e \in RequestEnds, t \in TimeStrings}

ScoreOffers ==
    {[OfferRow(0, "u2", sh[1], sh[2], sh[3], d, t, st[1])
        EXCEPT !.seats_filled = st[2]] :
        sh \in OfferShapes, d \in Dates, t \in TimeStrings, st \in OfferSeats}

ScoreInit ==
    /\ mReq \in ScoreRequests
    /\ mPool \in [1..1 -> ScoreOffers]
    /\ mResult = NotRun
    /\ DbIdle /\ HandlersIdle /\ SessionsIdle

ScoreNext == FindMatches

SpecScore == ScoreInit /\ [][ScoreNext]_vars

\* the times of TimeStrings by what they say: the period of the day, and
\* which of them are the same string but for case and outer blanks
PeriodOf(t) ==
    IF t \in {T_5pm, T_5PM, T_6pm} THEN "evening"
    ELSE IF t \in {T_8am, T_Morning} THEN "morning"
    ELSE "none"

SameTimeString(a, b) == a = b \/ {a, b} = {T_5pm, T_5PM}

ExpectedTimeScore(a, b) ==
    IF SameTimeString(a, b) THEN One
    ELSE IF PeriodOf(a) = PeriodOf(b) /\ PeriodOf(a) # "none" THEN Frac(8, 10)
    ELSE Frac(6, 10)

\* x is a number of thousandths at most half a thousandth away from e
RoundedTo3(x, e) ==
    /\ 1000 % x.d = 0
    /\ LET diff == x.n * e.d - e.n * x.d
       IN  2000 * (IF diff < 0 THEN -diff ELSE diff) <= x.d * e.d

\* C23: every offer that passes the date, seat and route-alignment checks is
\* returned whatever the two time strings are; its time score is 1.0 for
\* times equal after lower-casing and trimming, 0.8 for two times of the same
\* period of the day and 0.6 otherwise, and its overall score is
\* 0.7 * location score + 0.3 * time score rounded to 3 decimals
TimeNeverExcludes ==
    mResult.run =>
        \A i \in 1..Len(mPool) :
            LET o == PoolRows[i]
                route_match == check_route_alignment(mReq, o)
            IN  (o.date = mReq.date /\ SeatsSuffice(o) /\ route_match.is_aligned)
                => /\ Returned(i)
                   /\ MatchFor(i).time_score = ExpectedTimeScore(mReq.time, o.time)
                   /\ MatchFor(i).location_score = route_match.score
                   /\ RoundedTo3(MatchFor(i).overall_score,
                                 FAdd(FMul(Frac(7, 10), route_match.score),
                                      FMul(Frac(3, 10),
                                           ExpectedTimeScore(mReq.time, o.time))))

\* C23 witness: a request for the morning ("Morning") and an offer at "6pm"
\* on the same route segment: returned with time score 0.6 and overall
\* score 0.7 * 0.85 + 0.3 * 0.6 = 0.775
TimeNeverExcludesWitness ==
    /\ mResult.run
    /\ mReq.time = T_Morning /\ mPool[1].time = T_6pm
    /\ Len(mResult.value) = 1
    /\ mResult.value[1].match_type = "partial_route"
    /\ mResult.value[1].time_score = Frac(6, 10)
    /\ mResult.value[1].overall_score = Frac(775, 1000)

-----------------------------------------------------------------------------
(* db_service.py: queries and inserts.  A database is [requests, offers,     *)
(* matches]; the id of a row is its position in its table.                  *)

Db == [requests |-> requests, offers |-> offers, matches |-> matches]

\* "if date:" applies the date filter only for a non-empty date
get_active_ride_requests(db, date) ==
    SelectSeq(db.requests,
              LAMBDA r : r.is_active /\ (date = "" \/ r.date = date))

get_active_ride_offers(db, date) ==
    SelectSeq(db.offers,
              LAMBDA o : /\ o.is_active
                         /\ o.available_seats > o.seats_filled
                         /\ (date = "" \/ o.date = date))

\* session_id is unique in ride_requests and in ride_offers, and the
\* confirmation turn saves with session_id = user_id
RequestExistsFor(db, user_id) ==
    \E i \in 1..Len(db.requests) : db.requests[i].user_id = user_id
OfferExistsFor(db, user_id) ==
    \E i \in 1..Len(db.offers) : db.offers[i].user_id = user_id

save_ride_request(db, user_id, details) ==
    [db EXCEPT !.requests = Append(@,
        RequestRow(Len(@) + 1, user_id, details.pickup_location,
                   details.drop_location, details.route, details.date,
                   details.time, details.passengers))]

save_ride_offer(db, user_id, details) ==
    [db EXCEPT !.offers = Append(@,
        OfferRow(Len(@) + 1, user_id, details.pickup_location,
                 details.drop_location, details.route, details.date,
                 details.time, details.available_seats))]

save_match(db, request_id, offer_id, match_type, match_score) ==
    [db EXCEPT !.matches = Append(@,
        MatchRow(Len(@) + 1, request_id, offer_id, match_type, match_score))]

RECURSIVE SaveMatches(_, _)
SaveMatches(db, found) ==
    IF found = <<>> THEN db
    ELSE SaveMatches(save_match(db, Head(found).request_id, Head(found).offer_id,
                                Head(found).match_type, Head(found).overall_score),
                     Tail(found))

-----------------------------------------------------------------------------
(* llm_service.py, handle_confirmation, the affirmative branch: save the     *)
(* entity, run the matching, save one match per compatible pair.  Every      *)
(* save commits on its own; commits is the number of commits the database    *)
(* accepts before it fails (NoFailure: it does not fail).                    *)

MaxRequests == 2
MaxOffers == 1
MaxCommits == 2

\* more commits than one turn makes
NoFailure == MaxRequests + MaxOffers + 2

\* the matches found for a new request, best first
MatchesToSave(request_id, ms) ==
    [k \in 1..Len(ms) |->
        [request_id |-> request_id, offer_id |-> ms[k].offer_id,
         match_type |-> ms[k].match_type,
         overall_score |-> ms[k].overall_score]]

FoundForRequest(db, ride_entry) ==
    MatchesToSave(ride_entry.id,
                  find_matches(ride_entry,
                               get_active_ride_offers(db, ride_entry.date)))

\* the matches found for a new offer: matches[0] of each active request
FirstMatch(request_id, offer_id, ms) ==
    IF ms = <<>> THEN <<>>
    ELSE << [request_id |-> request_id, offer_id |-> offer_id,
             match_type |-> ms[1].match_type,
             overall_score |-> ms[1].overall_score] >>

RECURSIVE FoundAmong(_, _)
FoundAmong(active_requests, ride_entry) ==
    IF active_requests = <<>> THEN <<>>
    ELSE FirstMatch(Head(active_requests).id, ride_entry.id,
                    find_matches(Head(active_requests), <<ride_entry>>))
         \o FoundAmong(Tail(active_requests), ride_entry)

\* as FoundForOffer, looking at the first active request only
FoundForOffer_firstRequest(db, ride_entry) ==
    LET active_requests == get_active_ride_requests(db, ride_entry.date)
    IN  FoundAmong(SubSeq(active_requests, 1,
                          IF active_requests = <<>> THEN 0 ELSE 1),
                   ride_entry)

FoundForOffer(db, ride_entry) ==
    FoundAmong(get_active_ride_requests(db, ride_entry.date), ride_entry)

Prefix(seq, n) == SubSeq(seq, 1, IF n < Len(seq) THEN n ELSE Len(seq))

\* the result: the database afterwards and the status of the turn
\* the save_match loop on the matches found, the entity being saved
PersistFound(saved, found, commits) ==
    IF commits - 1 < Len(found)
    THEN [db |-> SaveMatches(saved, Prefix(found, commits - 1)),
          status |-> "error"]
    ELSE [db |-> SaveMatches(saved, found), status |-> "success"]

PersistRequest(saved, commits) ==
    PersistFound(saved,
                 FoundForRequest(saved, saved.requests[Len(saved.requests)]),
                 commits)

PersistOffer(saved, commits) ==
    PersistFound(saved,
                 FoundForOffer(saved, saved.offers[Len(saved.offers)]),
                 commits)

PersistRide(db, intent, user_id, details, commits) ==
    IF intent = "ride_request"
    THEN IF RequestExistsFor(db, user_id) \/ commits = 0
         THEN [db |-> db, status |-> "error"]
         ELSE PersistRequest(save_ride_request(db, user_id, details), commits)
    ELSE IF OfferExistsFor(db, user_id) \/ commits = 0
         THEN [db |-> db, status |-> "error"]
         ELSE PersistOffer(save_ride_offer(db, user_id, details), commits)

-----------------------------------------------------------------------------
(* db_service.py: confirm_match and reject_match.  A call first loads the    *)
(* match, its request and its offer into its ORM session (the snapshot),     *)
(* then checks and assigns on the loaded objects, then commits.              *)

RowAt(table, id) == IF id \in 1..Len(table) THEN Some(table[id]) ELSE None

\* the three queries at the top of confirm_match and of reject_match
LoadMatch(db, match_id) ==
    LET match == RowAt(db.matches, match_id)
    IN  [match |-> match,
         request |-> IF match = None THEN None
                     ELSE RowAt(db.requests, match[1].request_id),
         offer |-> IF match = None THEN None
                   ELSE RowAt(db.offers, match[1].offer_id)]

Failure(db, error) == [db |-> db, success |-> FALSE, error |-> error]

\* as ConfirmWrites, without the assignments to the request
ConfirmWrites_noRequest(db, match, request, offer) ==
    LET seats_filled == offer.seats_filled + request.passengers
    IN  [db EXCEPT
           !.matches[match.id].status = "accepted",
           !.offers[offer.id].seats_filled = seats_filled,
           !.offers[offer.id].is_active =
               IF seats_filled >= offer.available_seats THEN FALSE ELSE @]

\* the UPDATEs of a successful confirm: the values assigned on the loaded
\* objects are written to the rows with their ids
ConfirmWrites(db, match, request, offer) ==
    LET seats_filled == offer.seats_filled + request.passengers
    IN  [db EXCEPT
           !.matches[match.id].status = "accepted",
           !.requests[request.id].is_matched = TRUE,
           !.requests[request.id].matched_with = offer.id,
           !.requests[request.id].is_active = FALSE,
           !.offers[offer.id].seats_filled = seats_filled,
           !.offers[offer.id].is_active =
               IF seats_filled >= offer.available_seats THEN FALSE ELSE @]

\* as confirm_match, the seat check made before the already-accepted check
confirm_match_seatsFirst(db, loaded, user_id, commit_ok) ==
    IF loaded.match = None THEN Failure(db, "Match not found")
    ELSE IF loaded.request = None \/ loaded.offer = None
    THEN Failure(db, "Request or Offer not found")
    ELSE
      LET match == loaded.match[1]
          request == loaded.request[1]
          offer == loaded.offer[1]
          remaining_seats == offer.available_seats - offer.seats_filled
      IN  IF request.user_id # user_id /\ offer.user_id # user_id
          THEN Failure(db, "Unauthorized - this match doesn't belong to you")
          ELSE IF remaining_seats < request.passengers
          THEN Failure(db, "Not enough seats available")
          ELSE IF match.status = "accepted"
          THEN Failure(db, "Match already confirmed")
          ELSE IF ~commit_ok
          THEN Failure(db, "PersistenceFailure")
          ELSE [db |-> ConfirmWrites(db, match, request, offer),
                success |-> TRUE, error |-> ""]

\* commit_ok = FALSE: db.commit() raises, the except branch rolls back
confirm_match(db, loaded, user_id, commit_ok) ==
    IF loaded.match = None THEN Failure(db, "Match not found")
    ELSE IF loaded.request = None \/ loaded.offer = None
    THEN Failure(db, "Request or Offer not found")
    ELSE
      LET match == loaded.match[1]
          request == loaded.request[1]
          offer == loaded.offer[1]
          remaining_seats == offer.available_seats - offer.seats_filled
      IN  IF request.user_id # user_id /\ offer.user_id # user_id
          THEN Failure(db, "Unauthorized - this match doesn't belong to you")
          ELSE IF match.status = "accepted"
          THEN Failure(db, "Match already confirmed")
          ELSE IF remaining_seats < request.passengers
          THEN Failure(db, "Not enough seats available")
          ELSE IF ~commit_ok
          THEN Failure(db, "PersistenceFailure")
          ELSE [db |-> ConfirmWrites(db, match, request, offer),
                success |-> TRUE, error |-> ""]

\* as reject_match, a successful reject also withdrawing the request
reject_match_withdrawing(db, loaded, user_id, commit_ok) ==
    IF loaded.match = None THEN Failure(db, "Match not found")
    ELSE IF loaded.request = None \/ loaded.offer = None
    THEN Failure(db, "Request or Offer not found")
    ELSE IF /\ loaded.request[1].user_id # user_id
            /\ loaded.offer[1].user_id # user_id
    THEN Failure(db, "Unauthorized")
    ELSE IF ~commit_ok THEN Failure(db, "PersistenceFailure")
    ELSE [db |-> [db EXCEPT !.matches[loaded.match[1].id].status = "rejected",
                            !.requests[loaded.request[1].id].is_active = FALSE],
          success |-> TRUE, error |-> ""]

reject_match(db, loaded, user_id, commit_ok) ==
    IF loaded.match = None THEN Failure(db, "Match not found")
    ELSE IF loaded.request = None \/ loaded.offer = None
    THEN Failure(db, "Request or Offer not found")
    ELSE
      LET match == loaded.match[1]
          request == loaded.request[1]
          offer == loaded.offer[1]
      IN  IF request.user_id # user_id /\ offer.user_id # user_id
          THEN Failure(db, "Unauthorized")
          ELSE IF ~commit_ok
          THEN Failure(db, "PersistenceFailure")
          ELSE [db |-> [db EXCEPT !.matches[match.id].status = "rejected"],
                success |-> TRUE, error |-> ""]

\* get_user_matches: the pending matches of one active ride of the user, each
\* with the remaining seats of its offer as the rows now say
PendingOf(db, ride, role) ==
    LET found == SelectSeq(db.matches,
                           LAMBDA m : /\ m.status = "pending"
                                      /\ IF role = "requester"
                                         THEN m.request_id = ride.id
                                         ELSE m.offer_id = ride.id)
    IN  [k \in 1..Len(found) |->
            LET offer == db.offers[found[k].offer_id]
            IN  [match_id |-> found[k].id, role |-> role,
                 request_id |-> found[k].request_id,
                 offer_id |-> found[k].offer_id,
                 remaining_seats |-> offer.available_seats - offer.seats_filled]]

RECURSIVE MatchesOfRides(_, _, _)
MatchesOfRides(db, rides, role) ==
    IF rides = <<>> THEN <<>>
    ELSE PendingOf(db, Head(rides), role) \o MatchesOfRides(db, Tail(rides), role)

\* the user's active requests, then the user's active offers
get_user_matches(db, user_id) ==
    MatchesOfRides(db,
                   SelectSeq(db.requests,
                             LAMBDA r : r.user_id = user_id /\ r.is_active),
                   "requester")
    \o MatchesOfRides(db,
                      SelectSeq(db.offers,
                                LAMBDA o : o.user_id = user_id /\ o.is_active),
                      "offerer")

-----------------------------------------------------------------------------
(* Spec: the match lifecycle.  The endpoints of main.py that reach the       *)
(* database are coroutines (async def) that never await: the event loop runs *)
(* each of them to its end before it starts another, so a call is one step.  *)
(* SpecRace below splits the calls into their load and commit steps.         *)

Users == {"u1", "u2", "u3"}

MaxSeats == 2

\* passengers and available_seats are whatever integer the extraction gave:
\* nothing between the extraction and the INSERT checks their sign.  (A
\* negative passengers would pass as well; it makes seats_filled decrease
\* without bound and is left out to keep the state space finite.)
SeatValues == {-1} \cup 1..MaxSeats
PassengerValues == 1..MaxPassengers

\* the requests are all for one day; the offers are for either day
RequestDates == {"today"}

RequestDetails ==
    {[pickup_location |-> S_DHA, drop_location |-> S_Airport, route |-> <<>>,
      date |-> d, time |-> T_5pm, passengers |-> p] :
        d \in RequestDates, p \in PassengerValues}

OfferDetails ==
    {[pickup_location |-> S_dha, drop_location |-> S_airport, route |-> <<>>,
      date |-> d, time |-> T_5pm, available_seats |-> a] :
        d \in Dates, a \in SeatValues}

NoCall == [op |-> "", match_id |-> 0, user_id |-> ""]
NoSnap == [match |-> None, request |-> None, offer |-> None]
NoResult == [success |-> FALSE, error |-> ""]

LifecycleInit ==
    /\ requests = <<>> /\ offers = <<>> /\ matches = <<>>
    /\ loop = ""
    /\ pc = <<>>
    /\ call = NoCall
    /\ snap = NoSnap
    /\ result = NoResult
    /\ SessionsIdle /\ MatchIdle

SetDb(db) ==
    /\ requests' = db.requests
    /\ offers' = db.offers
    /\ matches' = db.matches

Posted(r) ==
    /\ SetDb(r.db)
    /\ result' = [success |-> r.status = "success", error |-> ""]

Responds(r) ==
    /\ SetDb(r.db)
    /\ result' = [success |-> r.success, error |-> r.error]

\* the affirmative confirmation turn of user_id (POST /test, POST
\* /webhook/whatsapp) with the complete details of its session
PostRide(user_id, intent, details, commits) ==
    /\ intent = "ride_request" => Len(requests) < MaxRequests
    /\ intent = "ride_offer" => Len(offers) < MaxOffers
    /\ Posted(PersistRide(Db, intent, user_id, details, commits))
    /\ UNCHANGED <<loop, pc, call, snap, sessionVars, matchVars>>

\* POST /confirm-match
Confirm(match_id, user_id, commit_ok) ==
    /\ Responds(confirm_match(Db, LoadMatch(Db, match_id), user_id, commit_ok))
    /\ UNCHANGED <<loop, pc, call, snap, sessionVars, matchVars>>

\* POST /reject-match
Reject(match_id, user_id, commit_ok) ==
    /\ Responds(reject_match(Db, LoadMatch(Db, match_id), user_id, commit_ok))
    /\ UNCHANGED <<loop, pc, call, snap, sessionVars, matchVars>>

Next ==
    \/ \E u \in Users, d \in RequestDetails, c \in (0..MaxCommits) \cup {NoFailure} :
          PostRide(u, "ride_request", d, c)
    \/ \E u \in Users, d \in OfferDetails, c \in (0..MaxCommits) \cup {NoFailure} :
          PostRide(u, "ride_offer", d, c)
    \/ \E m \in 1..(Len(matches) + 1), u \in Users, ok \in BOOLEAN :
          Confirm(m, u, ok)
    \/ \E m \in 1..(Len(matches) + 1), u \in Users, ok \in BOOLEAN :
          Reject(m, u, ok)

Spec == LifecycleInit /\ [][Next]_vars


Owns(user_id, m) ==
    \/ requests[matches[m].request_id].user_id = user_id
    \/ offers[matches[m].offer_id].user_id = user_id

LacksSeats(m) ==
    LET o == offers[matches[m].offer_id]
    IN  o.available_seats - o.seats_filled < requests[matches[m].request_id].passengers

SeatsWithinCapacity ==
    \A o \in 1..Len(offers) :
        /\ 0 <= offers[o].seats_filled
        /\ offers[o].seats_filled <= offers[o].available_seats

\* C4: confirm reports the first failing check in the order not found,
\* unauthorized, already confirmed, not enough seats: a user owning neither
\* side gets Unauthorized also for an accepted match, and an owner gets
\* AlreadyConfirmed for an accepted match also when the offer is full, the
\* seat count staying as it was.
ConfirmCheckOrder ==
    [][ \A m \in 1..(Len(matches) + 1), u \in Users, ok \in BOOLEAN :
           Confirm(m, u, ok) =>
              IF m > Len(matches)
              THEN result'.error = "Match not found"
              ELSE /\ ~Owns(u, m) =>
                        result'.error = "Unauthorized - this match doesn't belong to you"
                   /\ (Owns(u, m) /\ matches[m].status = "accepted") =>
                        /\ result'.error = "Match already confirmed"
                        /\ UNCHANGED offers
                   /\ (Owns(u, m) /\ matches[m].status # "accepted" /\ LacksSeats(m)) =>
                        result'.error = "Not enough seats available"
                   /\ result'.error # "" => ~result'.success
      ]_vars

\* C4 witness: AlreadyConfirmed was returned while the only offer is full
ConfirmCheckOrderWitness ==
    /\ result.error = "Match already confirmed"
    /\ Len(offers) = 1
    /\ offers[1].seats_filled >= offers[1].available_seats
    /\ offers[1].seats_filled > 0

\* C5 as stated: reject by an owner on an accepted match fails as
\* AlreadyConfirmed and leaves the match accepted and seats_filled unchanged
RejectAcceptedFails ==
    [][ \A m \in 1..Len(matches), u \in Users :
           (Reject(m, u, TRUE) /\ Owns(u, m) /\ matches[m].status = "accepted") =>
              /\ ~result'.success
              /\ result'.error = "Match already confirmed"
              /\ matches'[m].status = "accepted"
              /\ UNCHANGED offers
      ]_vars

\* find_matches finds the offer compatible with the request
Compatible(request, offer) == find_matches(request, <<offer>>) # <<>>

\* the ids of the match rows the step created
Created == (Len(matches) + 1)..Len(matches')

\* the step created one pending row for the pair, or none
CreatedFor(request_id, offer_id, expected) ==
    LET rows == {k \in Created : /\ matches'[k].request_id = request_id
                                 /\ matches'[k].offer_id = offer_id}
    IN  /\ Cardinality(rows) = IF expected THEN 1 ELSE 0
        /\ \A k \in rows : matches'[k].status = "pending"

RejectChangesStatusOnly ==
    [][ \A m \in 1..Len(matches), u \in Users, ok \in BOOLEAN :
           Reject(m, u, ok) =>
              /\ requests' = requests
              /\ offers' = offers
              /\ \A k \in 1..Len(matches) : k # m => matches'[k] = matches[k]
              /\ Len(matches') = Len(matches)
              /\ IF Owns(u, m)
                 THEN IF ok
                      THEN /\ result'.success
                           /\ matches'[m] = [matches[m] EXCEPT !.status = "rejected"]
                      ELSE ~result'.success /\ matches'[m] = matches[m]
                 ELSE /\ ~result'.success
                      /\ result'.error = "Unauthorized"
                      /\ matches'[m] = matches[m]
      ]_vars

\* C27 witness: an owner rejected a pending match of an offer that has a
\* seat taken by another request: the seat count and both rides are as before
RejectChangesStatusOnlyWitness ==
    /\ result.success
    /\ \E m \in 1..Len(matches) :
          /\ matches[m].status = "rejected"
          /\ requests[matches[m].request_id].is_active
          /\ ~requests[matches[m].request_id].is_matched
          /\ offers[matches[m].offer_id].seats_filled = 1
          /\ offers[matches[m].offer_id].is_active

\* C28 as stated: get_user_matches(user) returns every match whose status is
\* pending and whose request or offer is owned by the user, and only those,
\* each with the remaining seats of its offer as they are at the call
UserMatchesArePendingOwned ==
    \A u \in Users :
        LET returned == get_user_matches(Db, u)
        IN  /\ {returned[k].match_id : k \in 1..Len(returned)}
                  = {m \in 1..Len(matches) :
                        matches[m].status = "pending" /\ Owns(u, m)}
            /\ \A k \in 1..Len(returned) :
                  returned[k].remaining_seats =
                      offers[returned[k].offer_id].available_seats
                      - offers[returned[k].offer_id].seats_filled

\* C26 as stated: in every reachable state a persisted offer is active
\* exactly when seats_filled < available_seats
ActiveIffSeatsRemain ==
    \A i \in 1..Len(offers) :
        offers[i].is_active <=> offers[i].seats_filled < offers[i].available_seats

-----------------------------------------------------------------------------
(* SpecRace: two POST /confirm-match or /reject-match calls, each split into  *)
(* the step that loads and the step that checks, assigns and commits.  The   *)
(* database they                                                             *)
(* start from is built with the operations above: u1 posts an offer and a    *)
(* request and may confirm their match, then u2 and u3 post a request each.  *)

Handlers == {"h1", "h2"}
NoHandler == ""

EmptyDb == [requests |-> <<>>, offers |-> <<>>, matches |-> <<>>]

RaceOffer(a) ==
    [pickup_location |-> S_dha, drop_location |-> S_airport, route |-> <<>>,
     date |-> "today", time |-> T_5pm, available_seats |-> a]
RaceRequest(p) ==
    [pickup_location |-> S_DHA, drop_location |-> S_Airport, route |-> <<>>,
     date |-> "today", time |-> T_5pm, passengers |-> p]

ConfirmedFirst(db, confirmed) ==
    IF confirmed THEN confirm_match(db, LoadMatch(db, 1), "u1", TRUE).db ELSE db

RequestedBy(db, user_id, p) ==
    PersistRide(db, "ride_request", user_id, RaceRequest(p), NoFailure).db

\* u1 offers a seats and requests p0, confirmed or not; u2 and u3 request
RaceDb(a, p0, confirmed, p1, p2) ==
    RequestedBy(
        RequestedBy(
            ConfirmedFirst(
                RequestedBy(
                    PersistRide(EmptyDb, "ride_offer", "u1", RaceOffer(a), NoFailure).db,
                    "u1", p0),
                confirmed),
            "u2", p1),
        "u3", p2)

RaceDbs ==
    {RaceDb(a, p0, c, p1, p2) :
        a \in 1..MaxSeats, p0 \in 1..MaxPassengers, c \in BOOLEAN,
        p1 \in 1..MaxPassengers, p2 \in 1..MaxPassengers}

RaceInit ==
    /\ \E db \in RaceDbs :
          requests = db.requests /\ offers = db.offers /\ matches = db.matches
    /\ loop = NoHandler
    /\ pc = [h \in Handlers |-> "idle"]
    /\ call = [h \in Handlers |-> NoCall]
    /\ snap = [h \in Handlers |-> NoSnap]
    /\ result = [h \in Handlers |-> NoResult]
    /\ SessionsIdle /\ MatchIdle

\* as EventLoopFree, the endpoints being plain functions run by a thread pool
EventLoopFree_threaded == TRUE

\* confirm_match_endpoint and reject_match_endpoint are coroutines without an
\* await: one starts only when the event loop runs no other handler
EventLoopFree == loop = NoHandler

\* the call starts: the queries of confirm_match load the three rows
Begin(h, op, match_id, user_id) ==
    /\ pc[h] = "idle"
    /\ EventLoopFree
    /\ loop' = h
    /\ pc' = [pc EXCEPT ![h] = "loaded"]
    /\ call' = [call EXCEPT ![h] = [op |-> op, match_id |-> match_id,
                                    user_id |-> user_id]]
    /\ snap' = [snap EXCEPT ![h] = LoadMatch(Db, match_id)]
    /\ UNCHANGED <<dbVars, result, sessionVars, matchVars>>

\* the checks, the assignments and the commit, then the response
Finish(h, commit_ok) ==
    /\ pc[h] = "loaded"
    /\ LET r == IF call[h].op = "confirm"
                THEN confirm_match(Db, snap[h], call[h].user_id, commit_ok)
                ELSE reject_match(Db, snap[h], call[h].user_id, commit_ok)
       IN  /\ SetDb(r.db)
           /\ result' = [result EXCEPT ![h] = [success |-> r.success,
                                               error |-> r.error]]
    /\ loop' = IF loop = h THEN NoHandler ELSE loop
    /\ pc' = [pc EXCEPT ![h] = "done"]
    /\ UNCHANGED <<call, snap, sessionVars, matchVars>>

RaceNext ==
    \/ \E h \in Handlers, op \in {"confirm", "reject"},
          m \in 1..Len(matches), u \in Users : Begin(h, op, m, u)
    \/ \E h \in Handlers, ok \in BOOLEAN : Finish(h, ok)

SpecRace == RaceInit /\ [][RaceNext]_vars


Remaining(o) == o.available_seats - o.seats_filled

\* both calls are confirms that loaded their rows, by an owner, of matches not
\* yet accepted, of different 1-passenger requests for the same offer, the
\* offer having one seat left when the first of them loaded it
OneSeatRace(h1, h2) ==
    /\ h1 # h2
    /\ pc[h1] = "done" /\ pc[h2] = "done"
    /\ call[h1].op = "confirm" /\ call[h2].op = "confirm"
    /\ \A h \in {h1, h2} :
          /\ snap[h].match # None
          /\ snap[h].request[1].passengers = 1
          /\ snap[h].match[1].status # "accepted"
          /\ \/ snap[h].request[1].user_id = call[h].user_id
             \/ snap[h].offer[1].user_id = call[h].user_id
          /\ Remaining(snap[h].offer[1]) <= 1
          /\ result[h].error # "PersistenceFailure"
    /\ snap[h1].offer[1].id = snap[h2].offer[1].id
    /\ snap[h1].request[1].id # snap[h2].request[1].id
    /\ Remaining(snap[h1].offer[1]) = 1

\* C1: two confirms for different 1-passenger requests racing on an offer
\* with one seat left: exactly one succeeds, the other fails for lack of
\* seats, and the offer ends full (seats_filled = available_seats).
OneSeatOneWinner ==
    \A h1, h2 \in Handlers :
        OneSeatRace(h1, h2) =>
            LET o == offers[snap[h1].offer[1].id]
            IN  /\ result[h1].success # result[h2].success
                /\ \A h \in {h1, h2} :
                      ~result[h].success => result[h].error = "Not enough seats available"
                /\ o.seats_filled = o.available_seats

\* C1 witness: the race on an offer with available_seats = 2, seats_filled = 1
\* has ended with one winner, one loser and seats_filled = 2
OneSeatOneWinnerWitness ==
    \E h1, h2 \in Handlers :
        /\ OneSeatRace(h1, h2)
        /\ snap[h1].offer[1].available_seats = 2
        /\ snap[h1].offer[1].seats_filled = 1
        /\ result[h1].success
        /\ result[h2].error = "Not enough seats available"
        /\ offers[snap[h1].offer[1].id].seats_filled = 2

-----------------------------------------------------------------------------
(* SpecOffers: the confirm and reject calls on one request that has a        *)
(* pending match with each of two offers.  u2 and u3 each post an offer,     *)
(* then u1 posts the request; the calls run one at a time as in Spec.        *)

OffersInit ==
    /\ \E a1 \in 1..MaxSeats, a2 \in 1..MaxSeats, p \in 1..MaxPassengers :
          LET first == PersistRide(EmptyDb, "ride_offer", "u2", RaceOffer(a1),
                                   NoFailure).db
              second == PersistRide(first, "ride_offer", "u3", RaceOffer(a2),
                                    NoFailure).db
              db == RequestedBy(second, "u1", p)
          IN  requests = db.requests /\ offers = db.offers /\ matches = db.matches
    /\ loop = ""
    /\ pc = <<>>
    /\ call = NoCall
    /\ snap = NoSnap
    /\ result = NoResult
    /\ SessionsIdle /\ MatchIdle

OffersNext ==
    \/ \E m \in 1..Len(matches), u \in Users, ok \in BOOLEAN : Confirm(m, u, ok)
    \/ \E m \in 1..Len(matches), u \in Users, ok \in BOOLEAN : Reject(m, u, ok)

SpecOffers == OffersInit /\ [][OffersNext]_vars

AcceptedOf(r) ==
    {m \in 1..Len(matches) : matches[m].request_id = r /\ matches[m].status = "accepted"}

\* C33 as stated: over any sequence of confirm and reject calls each request
\* has at most one accepted match, and once a request is matched (is_matched
\* true, is_active false) no call changes the offer it is matched with
OneAcceptedMatchPerRequest ==
    [][ \A r \in 1..Len(requests) :
           /\ Cardinality(AcceptedOf(r)') <= 1
           /\ (requests[r].is_matched /\ ~requests[r].is_active) =>
                  requests'[r].matched_with = requests[r].matched_with
      ]_vars

RECURSIVE SumPassengers(_, _)
SumPassengers(rows, offer_id) ==
    IF rows = <<>> THEN 0
    ELSE (IF Head(rows).is_matched /\ Head(rows).matched_with = offer_id
          THEN Head(rows).passengers ELSE 0)
         + SumPassengers(Tail(rows), offer_id)

\* C34 as stated: in every state reached by confirm and reject calls (accept,
\* then reject, then accept again of the same match included) each offer's
\* seats_filled is the sum of the passengers of the requests that are matched
\* with that offer: no request's seats are counted twice or lost
SeatsFilledIsSumOfMatched ==
    \A o \in 1..Len(offers) :
        offers[o].seats_filled = SumPassengers(requests, o)

-----------------------------------------------------------------------------
(* SpecPostRace: two affirmative confirmation turns (POST /test, POST        *)
(* /webhook/whatsapp), each split into the step that saves its ride and the  *)
(* step that reads the active pool, runs the matching and saves the matches. *)
(* The endpoints are coroutines without an await, as those of SpecRace.      *)

PostRaceInit ==
    /\ \E db \in {EmptyDb} \cup {RequestedBy(EmptyDb, "u3", p) : p \in 1..MaxPassengers} :
          requests = db.requests /\ offers = db.offers /\ matches = db.matches
    /\ loop = NoHandler
    /\ pc = [h \in Handlers |-> "idle"]
    /\ call = [h \in Handlers |-> NoCall]
    /\ snap = [h \in Handlers |-> NoSnap]
    /\ result = [h \in Handlers |-> NoResult]
    /\ SessionsIdle /\ MatchIdle

\* the turn starts: save_ride_request or save_ride_offer with its commit; the
\* INSERT fails on a session id that has a row already
BeginPost(h, user_id, intent, details, commit_ok) ==
    /\ pc[h] \in {"idle", "done"}
    /\ EventLoopFree
    /\ intent = "ride_request" => Len(requests) < MaxRequests
    /\ intent = "ride_offer" => Len(offers) < MaxOffers
    /\ IF \/ ~commit_ok
          \/ intent = "ride_request" /\ RequestExistsFor(Db, user_id)
          \/ intent = "ride_offer" /\ OfferExistsFor(Db, user_id)
       THEN /\ pc' = [pc EXCEPT ![h] = "done"]
            /\ result' = [result EXCEPT ![h] = NoResult]
            /\ UNCHANGED <<dbVars, loop, call>>
       ELSE /\ SetDb(IF intent = "ride_request"
                     THEN save_ride_request(Db, user_id, details)
                     ELSE save_ride_offer(Db, user_id, details))
            /\ loop' = h
            /\ pc' = [pc EXCEPT ![h] = "saved"]
            /\ call' = [call EXCEPT ![h] =
                           [op |-> intent,
                            match_id |-> IF intent = "ride_request"
                                         THEN Len(requests) + 1
                                         ELSE Len(offers) + 1,
                            user_id |-> user_id]]
            /\ UNCHANGED result
    /\ UNCHANGED <<snap, sessionVars, matchVars>>

\* the pool is read, the matching runs and each match found is saved with a
\* commit of its own, then the turn replies
FinishPost(h, commits) ==
    /\ pc[h] = "saved"
    /\ LET found == IF call[h].op = "ride_request"
                    THEN FoundForRequest(Db, requests[call[h].match_id])
                    ELSE FoundForOffer(Db, offers[call[h].match_id])
           r == PersistFound(Db, found, commits)
       IN  /\ SetDb(r.db)
           /\ result' = [result EXCEPT ![h] = [success |-> r.status = "success",
                                               error |-> ""]]
    /\ loop' = IF loop = h THEN NoHandler ELSE loop
    /\ pc' = [pc EXCEPT ![h] = "done"]
    /\ UNCHANGED <<call, snap, sessionVars, matchVars>>

PostRaceNext ==
    \/ \E h \in Handlers, u \in Users, p \in 1..MaxPassengers, ok \in BOOLEAN :
          BeginPost(h, u, "ride_request", RaceRequest(p), ok)
    \/ \E h \in Handlers, u \in Users, a \in 1..MaxSeats, ok \in BOOLEAN :
          BeginPost(h, u, "ride_offer", RaceOffer(a), ok)
    \/ \E h \in Handlers, c \in {1, 2, NoFailure} : FinishPost(h, c)

SpecPostRace == PostRaceInit /\ [][PostRaceNext]_vars

\* C40: there is at most one match row for each pair of a request and an
\* offer in every reachable state, also when the turn that saves the request
\* and the turn that saves the offer are started together: the event loop
\* runs one to its end before the other, so only the later one finds the pair
OneMatchRowPerPair ==
    \A i, j \in 1..Len(matches) :
        ( /\ matches[i].request_id = matches[j].request_id
          /\ matches[i].offer_id = matches[j].offer_id ) => i = j

\* the two handlers saved a request and an offer that match, both turns have
\* ended without a failure, and the pair has its match row
OneMatchRowPerPairWitness ==
    \E h1, h2 \in Handlers :
        /\ pc[h1] = "done" /\ pc[h2] = "done"
        /\ call[h1].op = "ride_request" /\ call[h2].op = "ride_offer"
        /\ result[h1].success /\ result[h2].success
        /\ \E m \in 1..Len(matches) :
              /\ matches[m].request_id = call[h1].match_id
              /\ matches[m].offer_id = call[h2].match_id


-----------------------------------------------------------------------------
(* memory_manager.py: a conversation session.  ride_details is a dict: a     *)
(* function from the keys it holds to None, Some(value) or Mistyped; the     *)
(* messages are kept by their roles; current_intent None is NoIntent;        *)
(* last_activity is the value of now at the last touch.                      *)

NoIntent == ""

\* a JSON value no field of RideDetails accepts (a list where an int belongs)
Mistyped == <<"a", "list">>

Fields ==
    {"pickup_location", "drop_location", "route", "date", "time",
     "passengers", "available_seats"}

NewSession ==
    [messages |-> <<>>, ride_details |-> <<>>, current_intent |-> NoIntent,
     is_complete |-> FALSE, last_activity |-> now]

\* dict.get(f): None for a missing key
Get(details, f) == IF f \in DOMAIN details THEN details[f] ELSE None

\* a merge that forgets what the session held
Merge_replacing(a, b) == b

\* {**a, **b} and a.update(b)
Merge(a, b) ==
    [f \in (DOMAIN a) \cup (DOMAIN b) |-> IF f \in DOMAIN b THEN b[f] ELSE a[f]]

add_message(session, role) ==
    [session EXCEPT !.messages = Append(@, role), !.last_activity = now]

update_ride_details(session, details) ==
    [session EXCEPT !.ride_details = Merge(@, details)]

set_intent(session, intent) == [session EXCEPT !.current_intent = intent]

mark_complete(session) == [session EXCEPT !.is_complete = TRUE]

\* a clear that empties the messages only
clear_messagesOnly(session) == [session EXCEPT !.messages = <<>>]

\* ConversationSession.clear
clear(session) == NewSession

-----------------------------------------------------------------------------
(* llm_service.py: classify_intent and extract_information.  The answers of  *)
(* the two language-model calls are inputs of the turn.                      *)

IntentLiteral == {"ride_request", "ride_offer", "other"}

M_need == <<"n","e","e","d">>
M_want == <<"w","a","n","t">>
M_lookingFor == <<"l","o","o","k","i","n","g"," ","f","o","r">>
M_goingTo == <<"g","o","i","n","g"," ","t","o">>
M_offering == <<"o","f","f","e","r","i","n","g">>
M_haveSpace == <<"h","a","v","e"," ","s","p","a","c","e">>
M_driving == <<"d","r","i","v","i","n","g">>

\* the keyword fallback of classify_intent
FallbackIntent(message) ==
    LET message_lower == Lower(message)
    IN  IF \E word \in {M_need, M_want, M_lookingFor, M_goingTo} :
              Contains(word, message_lower)
        THEN "ride_request"
        ELSE IF \E word \in {M_offering, M_haveSpace, M_driving} :
              Contains(word, message_lower)
        THEN "ride_offer"
        ELSE "other"

\* cls: [kind |-> "fail"] when the call or the parsing raises, else
\* [kind |-> "answer", intent, valid]: valid is whether the rest of the
\* answer (confidence, reasoning) passes IntentResponse.  set_intent comes
\* before the validation.
classify_intent(session, message, cls) ==
    IF cls.kind = "fail"
    THEN [session |-> session, intent |-> FallbackIntent(message)]
    ELSE LET stored == set_intent(session, cls.intent)
         IN  IF cls.valid /\ cls.intent \in IntentLiteral
             THEN [session |-> stored, intent |-> cls.intent]
             ELSE [session |-> stored, intent |-> FallbackIntent(message)]

required_fields(intent) ==
    <<"pickup_location", "drop_location", "date", "time">>
    \o (IF intent = "ride_request" THEN <<"passengers">>
        ELSE IF intent = "ride_offer" THEN <<"available_seats">>
        ELSE <<>>)

MissingFields(intent, details) ==
    SelectSeq(required_fields(intent), LAMBDA f : Get(details, f) = None)

\* RideDetails(**details) validates
Validates(details) == \A f \in DOMAIN details : details[f] # Mistyped

\* the except branch: nothing merged, is_complete False whatever is missing
ExtractionError(session, intent) ==
    [session |-> session,
     raised |-> ~Validates(session.ride_details),
     missing_fields |-> MissingFields(intent, session.ride_details),
     is_complete |-> FALSE]

\* ext: [kind |-> "fail"] when the call, the parsing or result["details"]
\* raises, else [kind |-> "answer", details |-> the extracted dict]
extract_information(session, intent, ext) ==
    IF ext.kind = "fail" THEN ExtractionError(session, intent)
    ELSE
      LET merged == Merge(session.ride_details, ext.details)
          merged_details ==
              IF intent = "ride_request" /\ Get(merged, "passengers") = None
              THEN Merge(merged, [f \in {"passengers"} |-> Some(1)])
              ELSE merged
          updated == update_ride_details(session, merged_details)
          missing == MissingFields(intent, merged_details)
      IN  IF Validates(merged_details)
          THEN [session |-> updated, raised |-> FALSE,
                missing_fields |-> missing, is_complete |-> missing = <<>>]
          ELSE ExtractionError(updated, intent)


-----------------------------------------------------------------------------
(* llm_service.py: process_message and handle_confirmation *)

W_yes == <<"y","e","s">>
W_yep == <<"y","e","p">>
W_yeah == <<"y","e","a","h">>
W_correct == <<"c","o","r","r","e","c","t">>
W_confirm == <<"c","o","n","f","i","r","m">>
W_confirmed == <<"c","o","n","f","i","r","m","e","d">>
W_ok == <<"o","k">>
W_okay == <<"o","k","a","y">>
W_no == <<"n","o">>
W_nope == <<"n","o","p","e">>
W_wrong == <<"w","r","o","n","g">>
W_incorrect == <<"i","n","c","o","r","r","e","c","t">>

\* a vocabulary that knows one affirmative word only
YesWords_short == {W_yes}

YesWords ==
    {W_yes, W_yep, W_yeah, W_correct, W_confirm, W_confirmed, W_ok, W_okay}
NoWords == {W_no, W_nope, W_wrong, W_incorrect}

IsValue(details, f) == f \in DOMAIN details /\ Len(details[f]) = 1

\* the affirmative branch on the details of the session: details[f] raises
\* KeyError for a missing key, the INSERT fails on a NULL or mistyped column,
\* and the reply of a request without matches reads details['passengers']
\* the columns of the row to insert
RowOf(details) ==
    [pickup_location |-> details["pickup_location"][1],
     drop_location |-> details["drop_location"][1],
     route |-> IF IsValue(details, "route") THEN details["route"][1] ELSE <<>>,
     date |-> details["date"][1],
     time |-> details["time"][1],
     passengers |-> IF IsValue(details, "passengers")
                    THEN details["passengers"][1] ELSE 1,
     available_seats |-> IF IsValue(details, "available_seats")
                         THEN details["available_seats"][1] ELSE 0]

\* the reply of a request saved without a match reads details['passengers']
Replied(db, intent, details, r) ==
    IF /\ r.status = "success"
       /\ intent = "ride_request"
       /\ "passengers" \notin DOMAIN details
       /\ Len(r.db.matches) = Len(db.matches)
    THEN [db |-> r.db, status |-> "error"]
    ELSE r

PersistSession(db, intent, user_id, details, commits) ==
    LET base == \A f \in {"pickup_location", "drop_location", "date", "time"} :
                    IsValue(details, f)
        count == IF intent = "ride_request"
                 THEN "passengers" \notin DOMAIN details \/ IsValue(details, "passengers")
                 ELSE IsValue(details, "available_seats")
    IN  IF ~(base /\ count) THEN [db |-> db, status |-> "error"]
        ELSE Replied(db, intent, details,
                     PersistRide(db, intent, user_id, RowOf(details), commits))

Raised(session) ==
    [session |-> session,
     reply |-> [raised |-> TRUE, intent |-> NoIntent, is_complete |-> FALSE,
                missing_fields |-> <<>>, next_action |-> "",
                saved_to_db |-> FALSE]]

\* process_message after extract_information returned e
Extracted(intent, e) ==
    IF e.raised THEN Raised(e.session)
    ELSE [session |-> add_message(IF e.is_complete
                                  THEN mark_complete(e.session)
                                  ELSE e.session, "assistant"),
          reply |-> [raised |-> FALSE, intent |-> intent,
                     is_complete |-> e.is_complete,
                     missing_fields |-> e.missing_fields,
                     next_action |-> IF e.is_complete
                                     THEN "awaiting_confirmation"
                                     ELSE "awaiting_details",
                     saved_to_db |-> FALSE]]

\* process_message once the intent is chosen (c: the session and the intent)
WithIntent(c, ext) ==
    IF c.intent = "other"
    THEN [session |-> add_message(c.session, "assistant"),
          reply |-> [raised |-> FALSE, intent |-> "other",
                     is_complete |-> FALSE, missing_fields |-> <<>>,
                     next_action |-> "awaiting_intent",
                     saved_to_db |-> FALSE]]
    ELSE Extracted(c.intent, extract_information(c.session, c.intent, ext))

\* process_message from the choice of the intent on (the session is not
\* awaiting a confirmation); session holds the user message already
ExtractionTurn(session, message, cls, ext) ==
    LET continuing == /\ session.current_intent # NoIntent
                      /\ session.current_intent # "other"
                      /\ ~session.is_complete
    IN  IF continuing /\ session.current_intent \notin IntentLiteral
        THEN Raised(session)
        ELSE
          WithIntent(IF continuing
                     THEN [session |-> session, intent |-> session.current_intent]
                     ELSE classify_intent(session, message, cls),
                     ext)

\* the affirmative branch after the saves (p); next_action |-> None: the
\* result has no "next_action" key
Affirmed(session, p) ==
    IF p.status = "success"
    THEN [session |-> mark_complete(session), db |-> p.db,
          raised |-> FALSE, next_action |-> Some("completed"),
          saved_to_db |-> TRUE]
    ELSE [session |-> session, db |-> p.db, raised |-> FALSE,
          next_action |-> None, saved_to_db |-> FALSE]

\* the correction branch returns the result t of the inner process_message
Corrected(db, t) ==
    [session |-> t.session, db |-> db, raised |-> t.reply.raised,
     next_action |-> Some(t.reply.next_action), saved_to_db |-> FALSE]

handle_confirmation(session, db, session_id, message, cls, ext, commits) ==
    LET message_lower == Strip(Lower(message))
    IN  IF session.ride_details = <<>> \/ session.current_intent = NoIntent
        THEN [session |-> session, db |-> db, raised |-> FALSE,
              next_action |-> None, saved_to_db |-> FALSE]
        ELSE IF message_lower \in YesWords
        THEN Affirmed(session,
                      PersistSession(db, session.current_intent, session_id,
                                     session.ride_details, commits))
        ELSE IF message_lower \in NoWords
        THEN [session |-> clear(session), db |-> db, raised |-> FALSE,
              next_action |-> None, saved_to_db |-> FALSE]
        ELSE Corrected(db,
                       ExtractionTurn(
                           add_message([session EXCEPT !.is_complete = FALSE],
                                       "user"),
                           message, cls, ext))

AwaitingConfirmation(session) ==
    session.is_complete /\ session.current_intent \in {"ride_request", "ride_offer"}

\* process_message after handle_confirmation returned h
Confirmation(db, h) ==
    IF h.raised THEN Raised(h.session) @@ [db |-> db]
    ELSE [session |-> add_message(h.session, "assistant"),
          db |-> h.db,
          reply |-> [raised |-> FALSE,
                     intent |-> h.session.current_intent,
                     is_complete |-> TRUE,
                     missing_fields |-> <<>>,
                     next_action |-> IF h.next_action = None
                                     THEN "completed"
                                     ELSE h.next_action[1],
                     saved_to_db |-> h.saved_to_db]]

\* one turn on the session (a new one when the store has none for the id)
process_message(session, db, session_id, message, cls, ext, commits) ==
    LET s == add_message(session, "user")
    IN  IF AwaitingConfirmation(s)
        THEN Confirmation(db, handle_confirmation(s, db, session_id, message,
                                                  cls, ext, commits))
        ELSE ExtractionTurn(s, message, cls, ext) @@ [db |-> db]


-----------------------------------------------------------------------------
(* SpecSession: the conversation of one user, turn by turn (POST /test and   *)
(* POST /webhook/whatsapp call process_message; main.py also clears and     *)
(* deletes sessions).  The database starts empty or with the ride of         *)
(* another user in it.                                                       *)

SessionIds == {"u1"}

MaxMessages == 4

Msg_yes == W_yes
Msg_OK == <<" ", "O", "K", " ">>
Msg_no == W_no
Msg_needRide == <<"N","e","e","d"," ","a"," ","r","i","d","e">>
Msg_driving == <<"I","'","m"," ","d","r","i","v","i","n","g">>
Msg_hi == <<"h","i">>

Messages == {Msg_yes, Msg_OK, Msg_no, Msg_needRide, Msg_driving, Msg_hi, T_6pm}

ClassifierOutcomes ==
    {[kind |-> "fail", intent |-> "", valid |-> FALSE],
     [kind |-> "answer", intent |-> "ride_request", valid |-> TRUE],
     [kind |-> "answer", intent |-> "ride_offer", valid |-> TRUE],
     [kind |-> "answer", intent |-> "other", valid |-> TRUE],
     [kind |-> "answer", intent |-> "greeting", valid |-> FALSE]}

Route3 == <<S_FAST, S_DrighRoad, S_Gulshan>>

\* every key of the prompt's JSON shape, null where nothing was said
Shape(pickup, drop, date, time, passengers, available_seats) ==
    [f \in Fields |->
        CASE f = "pickup_location" -> pickup
          [] f = "drop_location" -> drop
          [] f = "route" -> None
          [] f = "date" -> date
          [] f = "time" -> time
          [] f = "passengers" -> passengers
          [] f = "available_seats" -> available_seats]

Only(f, v) == [g \in {f} |-> v]

Partials ==
    {Shape(Some(S_DHA), Some(S_Airport), Some("today"), Some(T_5pm), Some(1), None),
     Shape(Some(S_dha), Some(S_airport), Some("today"), Some(T_5pm), None, Some(2)),
     Shape(Some(S_DHA), Some(S_Airport), None, None, None, None),
     <<>>,
     Only("time", Some(T_6pm)),
     Only("route", Some(Route3)),
     Only("passengers", Mistyped)}

ExtractionOutcomes ==
    {[kind |-> "fail", details |-> <<>>]}
    \cup {[kind |-> "answer", details |-> p] : p \in Partials}

SessionDbs ==
    {EmptyDb,
     PersistRide(EmptyDb, "ride_offer", "u2", RaceOffer(2), NoFailure).db}

NoReply ==
    [raised |-> FALSE, intent |-> NoIntent, is_complete |-> FALSE,
     missing_fields |-> <<>>, next_action |-> "", saved_to_db |-> FALSE]

SessionInit ==
    /\ \E db \in SessionDbs :
          requests = db.requests /\ offers = db.offers /\ matches = db.matches
    /\ sessions = <<>>
    /\ reply = NoReply
    /\ now = 0
    /\ HandlersIdle /\ MatchIdle

\* MemoryManager.get_session: the session of the id, a new one if none
get_session(session_id) ==
    IF session_id \in DOMAIN sessions
    THEN [sessions[session_id] EXCEPT !.last_activity = now]
    ELSE NewSession

\* what the turn will read of its inputs
Confirms(session, message) ==
    AwaitingConfirmation(session) /\ Strip(Lower(message)) \in YesWords \cup NoWords
Continues(session) ==
    /\ session.current_intent \notin {NoIntent, "other"}
    /\ AwaitingConfirmation(session) \/ ~session.is_complete

TurnDone(session_id, r) ==
    /\ sessions' = (session_id :> r.session) @@ sessions
    /\ SetDb(r.db)
    /\ reply' = r.reply

ProcessMessage(session_id, message, cls, ext, commits) ==
    /\ Len(get_session(session_id).messages) < MaxMessages
    /\ TurnDone(session_id,
                process_message(get_session(session_id), Db, session_id,
                                message, cls, ext, commits))
    /\ UNCHANGED <<now, handlerVars, matchVars>>

\* POST /memory/clear/{session_id}
ClearSession(session_id) ==
    /\ session_id \in DOMAIN sessions
    /\ sessions' = [sessions EXCEPT ![session_id] = clear(@)]
    /\ UNCHANGED <<dbVars, reply, now, handlerVars, matchVars>>

\* DELETE /memory/session/{session_id}
DeleteSession(session_id) ==
    /\ session_id \in DOMAIN sessions
    /\ sessions' = [x \in (DOMAIN sessions) \ {session_id} |-> sessions[x]]
    /\ UNCHANGED <<dbVars, reply, now, handlerVars, matchVars>>

\* the answers a turn does not ask for are fixed
SessionNext ==
    \/ \E session_id \in SessionIds, message \in Messages :
          LET session == get_session(session_id)
          IN  \E cls \in IF Confirms(session, message) \/ Continues(session)
                         THEN {[kind |-> "fail", intent |-> "", valid |-> FALSE]}
                         ELSE ClassifierOutcomes,
                 ext \in IF Confirms(session, message)
                         THEN {[kind |-> "fail", details |-> <<>>]}
                         ELSE ExtractionOutcomes,
                 commits \in IF Confirms(session, message)
                             THEN {0, 1, NoFailure} ELSE {NoFailure} :
                    ProcessMessage(session_id, message, cls, ext, commits)
    \/ \E session_id \in SessionIds : ClearSession(session_id)
    \/ \E session_id \in SessionIds : DeleteSession(session_id)

SpecSession == SessionInit /\ [][SessionNext]_vars


\* the turn reaches extract_information
RunsExtraction(session, message, cls) ==
    IF AwaitingConfirmation(session)
    THEN /\ session.ride_details # <<>>
         /\ Strip(Lower(message)) \notin YesWords \cup NoWords
    ELSE IF Continues(session)
    THEN session.current_intent \in IntentLiteral
    ELSE classify_intent(session, message, cls).intent # "other"

\* C9 as stated: after every turn that runs the extraction, whether the
\* oracle answers or fails, the session's is_complete is true exactly when
\* no required field of its current_intent is null in its ride_details
CompleteIffNothingMissing ==
    [][ \A session_id \in SessionIds, message \in Messages,
           cls \in ClassifierOutcomes, ext \in ExtractionOutcomes :
           ( /\ ProcessMessage(session_id, message, cls, ext, NoFailure)
             /\ RunsExtraction(get_session(session_id), message, cls)
             /\ ~reply'.raised ) =>
              LET after == sessions'[session_id]
              IN  after.is_complete <=>
                     MissingFields(after.current_intent, after.ride_details) = <<>>
      ]_vars

\* C10 as stated: a merge keeps every field that had a value and for which
\* the extracted partial has null or no key (and a supplied route replaces
\* the old one)
MergeKeepsUnsuppliedFields ==
    [][ \A session_id \in SessionIds, message \in Messages,
           cls \in ClassifierOutcomes, ext \in ExtractionOutcomes :
           ( /\ ProcessMessage(session_id, message, cls, ext, NoFailure)
             /\ RunsExtraction(get_session(session_id), message, cls)
             /\ ext.kind = "answer" ) =>
              LET before == get_session(session_id).ride_details
                  after == sessions'[session_id].ride_details
              IN  /\ \A f \in DOMAIN before :
                        (before[f] # None /\ Get(ext.details, f) = None) =>
                           Get(after, f) = before[f]
                  /\ Get(ext.details, "route") # None =>
                        Get(after, "route") = Get(ext.details, "route")
      ]_vars


-----------------------------------------------------------------------------
(* The turns of SpecSession seen from the session before and after them *)

OracleFails == [kind |-> "fail", details |-> <<>>]
EmptyPartial == [kind |-> "answer", details |-> <<>>]

\* the intent the turn hands to extract_information
TurnIntent(session, message, cls) ==
    IF Continues(session) THEN session.current_intent
    ELSE classify_intent(session, message, cls).intent

\* the session is awaiting a confirmation and the message is no yes or no word
Corrects(session, message) ==
    /\ AwaitingConfirmation(session)
    /\ Strip(Lower(message)) \notin YesWords \cup NoWords

\* passengers of a ride request default to 1
Defaulted(intent, details) ==
    IF intent = "ride_request" /\ Get(details, "passengers") = None
    THEN [f \in (DOMAIN details) \cup {"passengers"} |->
             IF f = "passengers" THEN Some(1) ELSE details[f]]
    ELSE details

\* C11 as stated: after a turn in which a session awaiting confirmation gets
\* an affirmative word and the ride (with its matches) is persisted, the
\* session is cleared: ride_details empty, current_intent unset, is_complete
\* false, so the next message starts a new conversation
ConfirmedSessionCleared ==
    [][ \A session_id \in SessionIds, message \in Messages,
           commits \in {0, 1, NoFailure} :
           ( /\ AwaitingConfirmation(get_session(session_id))
             /\ Strip(Lower(message)) \in YesWords
             /\ ProcessMessage(session_id, message, OracleFails, OracleFails,
                               commits)
             /\ reply'.saved_to_db ) =>
              LET after == sessions'[session_id]
              IN  /\ after.ride_details = <<>>
                  /\ after.current_intent = NoIntent
                  /\ ~after.is_complete
                  /\ ~AwaitingConfirmation(after)
      ]_vars

\* C12 as stated: while a session awaits confirmation, a message that is
\* neither an affirmative nor a negative word is always handled as a
\* correction: the extraction runs again with the intent kept and its result
\* is merged, is_complete is true again only if nothing is missing, nothing
\* is persisted and the turn does not fail
CorrectionNeverFails ==
    [][ \A session_id \in SessionIds, message \in Messages,
           ext \in ExtractionOutcomes :
           ( /\ Corrects(get_session(session_id), message)
             /\ ProcessMessage(session_id, message, OracleFails, ext, NoFailure)
           ) =>
              LET before == get_session(session_id)
                  after == sessions'[session_id]
              IN  /\ ~reply'.raised
                  /\ after.current_intent = before.current_intent
                  /\ after.ride_details =
                        IF ext.kind = "answer"
                        THEN Defaulted(before.current_intent,
                                       Merge(before.ride_details, ext.details))
                        ELSE before.ride_details
                  /\ after.is_complete =>
                        MissingFields(after.current_intent,
                                      after.ride_details) = <<>>
                  /\ UNCHANGED dbVars
      ]_vars

\* C13 as stated: a turn collecting details in which the extraction oracle
\* fails ends as the same turn with an empty partial: same ride_details, same
\* missing fields, same is_complete, and a reply instead of a failure
FailureAsEmptyPartial ==
    [][ \A session_id \in SessionIds, message \in Messages,
           cls \in ClassifierOutcomes :
           ( /\ ~AwaitingConfirmation(get_session(session_id))
             /\ RunsExtraction(get_session(session_id), message, cls)
             /\ ProcessMessage(session_id, message, cls, OracleFails, NoFailure)
           ) =>
              LET empty == process_message(get_session(session_id), Db,
                                           session_id, message, cls,
                                           EmptyPartial, NoFailure)
              IN  /\ ~reply'.raised
                  /\ sessions'[session_id].ride_details =
                        empty.session.ride_details
                  /\ reply'.missing_fields = empty.reply.missing_fields
                  /\ reply'.is_complete = empty.reply.is_complete
      ]_vars

\* C14 as stated: whatever the intent classifier and the extraction oracle
\* do, process_message returns a reply, in this turn and in every later turn
\* of the session
EveryTurnReplies == ~reply.raised


\* C17 as stated: when a route of at least 2 stops is extracted, the session
\* has no pickup or drop and the same answer supplies none, the merge sets
\* pickup to the first stop and drop to the last stop, and neither is
\* reported missing
RouteGivesEnds ==
    [][ \A session_id \in SessionIds, message \in Messages,
           cls \in ClassifierOutcomes, ext \in ExtractionOutcomes :
           ( /\ ext.kind = "answer"
             /\ IsValue(ext.details, "route")
             /\ Len(ext.details["route"][1]) >= 2
             /\ \A f \in {"pickup_location", "drop_location"} :
                   /\ Get(get_session(session_id).ride_details, f) = None
                   /\ Get(ext.details, f) = None
             /\ RunsExtraction(get_session(session_id), message, cls)
             /\ ProcessMessage(session_id, message, cls, ext, NoFailure) ) =>
              LET route == ext.details["route"][1]
                  after == sessions'[session_id].ride_details
              IN  /\ Get(after, "pickup_location") = Some(route[1])
                  /\ Get(after, "drop_location") = Some(route[Len(route)])
                  /\ \A i \in DOMAIN reply'.missing_fields :
                        reply'.missing_fields[i] \notin
                            {"pickup_location", "drop_location"}
      ]_vars

\* C18 as stated: the missing fields a turn reports are exactly the required
\* fields of the intent that are null in the merged details after the
\* default of passengers, route is never among them, and is_complete is
\* returned true exactly when no field is missing
MissingFromMergedDetails ==
    [][ \A session_id \in SessionIds, message \in Messages,
           cls \in ClassifierOutcomes, ext \in ExtractionOutcomes :
           ( /\ ~AwaitingConfirmation(get_session(session_id))
             /\ RunsExtraction(get_session(session_id), message, cls)
             /\ ProcessMessage(session_id, message, cls, ext, NoFailure)
             /\ ~reply'.raised ) =>
              LET intent == TurnIntent(get_session(session_id), message, cls)
                  after == sessions'[session_id].ride_details
              IN  /\ reply'.missing_fields =
                        MissingFields(intent, Defaulted(intent, after))
                  /\ \A i \in DOMAIN reply'.missing_fields :
                        reply'.missing_fields[i] # "route"
                  /\ reply'.is_complete <=> reply'.missing_fields = <<>>
      ]_vars

\* the ride_details of the session after a turn with the given answers
DetailsAfter(session_id, message, cls, ext) ==
    process_message(get_session(session_id), Db, session_id, message, cls,
                    ext, NoFailure).session.ride_details

\* C19 as stated: merging an empty or absent partial into any session, for
\* any intent, leaves the session's ride_details unchanged (in every state,
\* for every turn that can come next and runs the extraction)
EmptyMergeKeepsDetails ==
    \A session_id \in SessionIds, message \in Messages,
       cls \in ClassifierOutcomes, ext \in {EmptyPartial, OracleFails} :
       RunsExtraction(get_session(session_id), message, cls) =>
          DetailsAfter(session_id, message, cls, ext) =
              get_session(session_id).ride_details

\* C19 amended: merging an empty partial changes nothing in ride_details but
\* passengers, which becomes 1 when the intent is ride_request and passengers
\* is null; with no partial at all (the oracle failed) ride_details is
\* unchanged
EmptyMergeKeepsDetailsButDefault ==
    \A session_id \in SessionIds, message \in Messages,
       cls \in ClassifierOutcomes, ext \in {EmptyPartial, OracleFails} :
       RunsExtraction(get_session(session_id), message, cls) =>
          DetailsAfter(session_id, message, cls, ext) =
              IF ext = EmptyPartial
              THEN Defaulted(TurnIntent(get_session(session_id), message, cls),
                             get_session(session_id).ride_details)
              ELSE get_session(session_id).ride_details

\* a second turn asked for details again and the session holds nothing but
\* the default of passengers: the turn merged an empty partial or none
EmptyMergeWitness ==
    /\ "u1" \in DOMAIN sessions
    /\ sessions["u1"].messages = <<"user", "assistant", "user", "assistant">>
    /\ sessions["u1"].ride_details = Only("passengers", Some(1))
    /\ reply.intent = "ride_request"
    /\ reply.next_action = "awaiting_details"
    /\ ~reply.raised

\* C20: after a turn in which a session awaiting confirmation gets a negative
\* word, the session's ride_details is empty, is_complete is false and
\* current_intent is unset, and the turn saved no request, offer or match
NegativeClearsSession ==
    [][ \A session_id \in SessionIds, message \in Messages,
           commits \in {0, 1, NoFailure} :
           ( /\ AwaitingConfirmation(get_session(session_id))
             /\ Strip(Lower(message)) \in NoWords
             /\ ProcessMessage(session_id, message, OracleFails, OracleFails,
                               commits) ) =>
              LET after == sessions'[session_id]
              IN  /\ after.ride_details = <<>>
                  /\ ~after.is_complete
                  /\ after.current_intent = NoIntent
                  /\ ~reply'.saved_to_db
                  /\ UNCHANGED dbVars
      ]_vars

\* the reply of a confirmation turn on a session whose only message is the
\* reply itself: the turn cleared the session
NegativeClearsSessionWitness ==
    /\ "u1" \in DOMAIN sessions
    /\ sessions["u1"].messages = <<"assistant">>
    /\ sessions["u1"].ride_details = <<>>
    /\ sessions["u1"].current_intent = NoIntent
    /\ reply.is_complete /\ reply.next_action = "completed"
    /\ ~reply.saved_to_db /\ ~reply.raised

\* the classifier and the extraction oracle both fail
ClassifierFails == [kind |-> "fail", intent |-> "", valid |-> FALSE]

\* the whole outcome of the turn (session, database, reply) does not depend
\* on what the two oracles would answer: the turn asks neither
AsksNoOracle(session_id, message, commits) ==
    \A cls \in ClassifierOutcomes, ext \in ExtractionOutcomes :
        process_message(get_session(session_id), Db, session_id, message,
                        cls, ext, commits)
        = process_message(get_session(session_id), Db, session_id, message,
                          ClassifierFails, OracleFails, commits)

\* C21: in a turn that starts with is_complete true and current_intent
\* ride_request or ride_offer, a message that is an affirmative or a negative
\* token (yes, " OK ", no) invokes neither classify_intent nor
\* extract_information: the turn's outcome is the same whatever the two
\* oracles would have answered
ConfirmationAsksNoOracle ==
    \A session_id \in DOMAIN sessions :
        AwaitingConfirmation(sessions[session_id]) =>
            \A message \in {Msg_yes, Msg_OK, Msg_no},
               commits \in {0, NoFailure} :
                AsksNoOracle(session_id, message, commits)

\* a complete session got an affirmative token and its request was saved;
\* the session is still complete and awaits the next reply
ConfirmationAsksNoOracleWitness ==
    /\ "u1" \in DOMAIN sessions
    /\ AwaitingConfirmation(sessions["u1"])
    /\ reply.saved_to_db /\ reply.next_action = "completed"
    /\ \E i \in DOMAIN requests : requests[i].user_id = "u1"

\* C22 as stated: in every reachable state every session's current_intent
\* is ride_request, ride_offer, other or unset, whatever intent string the
\* classifier returned
IntentInVocabulary ==
    \A session_id \in DOMAIN sessions :
        sessions[session_id].current_intent \in IntentLiteral \cup {NoIntent}

\* C31 as stated: clear(session_id) wipes ride_details, current_intent and
\* is_complete and nothing else: the session stays in the store under its
\* id, and its last_activity and its messages are the same after the call
ClearKeepsMessages ==
    [][ \A session_id \in SessionIds :
           ClearSession(session_id) =>
              /\ session_id \in DOMAIN sessions'
              /\ sessions'[session_id].ride_details = <<>>
              /\ sessions'[session_id].current_intent = NoIntent
              /\ ~sessions'[session_id].is_complete
              /\ sessions'[session_id].messages = sessions[session_id].messages
              /\ sessions'[session_id].last_activity =
                    sessions[session_id].last_activity
      ]_vars

\* generate_clarifying_question: the questions of the except branch
Q_pickup == "Where will you be starting from?"
Q_drop == "Where do you need to go?"
Q_heading == "Where are you heading?"
Q_trouble == "I'm having trouble understanding. Could you please provide more details?"

field_questions ==
    [f \in Fields |->
        CASE f = "pickup_location" -> Q_pickup
          [] f = "drop_location" -> Q_drop
          [] f = "route" -> "Would you like to share your route for better matches? (Optional)"
          [] f = "date" -> "When do you need this ride? (e.g., today, tomorrow)"
          [] f = "time" -> "What time do you need the ride?"
          [] f = "passengers" -> "How many passengers will be traveling?"
          [] f = "available_seats" -> "How many seats do you have available?"]

\* ask: [kind |-> "fail"] when the chain raises, else the stripped content
\* of the model's response, returned as it is
generate_clarifying_question(intent, missing_fields, existing_details, ask) ==
    IF ask.kind = "answer" THEN ask.content
    ELSE IF missing_fields # <<>> THEN field_questions[missing_fields[1]]
    ELSE "Could you please provide more details about your ride?"

\* the response may follow the priority of the prompt, word a question of
\* its own, or ask for the optional route
QuestionOutcomes ==
    {[kind |-> "fail", content |-> ""]}
    \cup {[kind |-> "answer", content |-> q] :
             q \in {Q_pickup, Q_drop, Q_heading, field_questions["route"],
                    field_questions["date"], field_questions["time"]}}

\* extract_information's clarifying_question when the details are incomplete:
\* the fixed text of the except branch, else the generated question on the
\* merged details
clarifying_question(session, intent, ext, ask) ==
    LET e == extract_information(session, intent, ext)
    IN  IF ext.kind = "fail" \/ ~Validates(e.session.ride_details)
        THEN Q_trouble
        ELSE generate_clarifying_question(intent, e.missing_fields,
                                          e.session.ride_details, ask)

\* C32 as stated: when a session collecting the details of a request or an
\* offer stays incomplete after the extraction, the follow-up question is
\* the one bound to the first still-missing field in the order pickup, drop,
\* date, time, passengers, available seats, whatever the question oracle
\* and the extraction oracle answered
QuestionOfFirstMissing ==
    \A session_id \in DOMAIN sessions :
        LET session == sessions[session_id]
            intent == session.current_intent
        IN  (intent \in {"ride_request", "ride_offer"} /\ ~session.is_complete) =>
                \A ext \in ExtractionOutcomes, ask \in QuestionOutcomes :
                    LET e == extract_information(session, intent, ext)
                    IN  (~e.raised /\ ~e.is_complete) =>
                            clarifying_question(session, intent, ext, ask)
                            = field_questions[e.missing_fields[1]]

\* the affirmative turn on the session of the id, the database accepting
\* commits commits before it fails
AffirmativeTurn(session_id, commits) ==
    process_message(get_session(session_id), Db, session_id, Msg_yes,
                    ClassifierFails, OracleFails, commits)

\* C35 as stated: the affirmative confirmation turn is all-or-nothing: when
\* it returns an error (saving the entity or one of its matches failed), no
\* request, offer or match created by the turn remains in the database, the
\* session still awaits the confirmation, and a later affirmative reply, the
\* database being available again, saves the ride
AffirmativeTurnAllOrNothing ==
    \A session_id \in DOMAIN sessions :
        AwaitingConfirmation(sessions[session_id]) =>
            \A commits \in {0, 1, NoFailure} :
                LET r == AffirmativeTurn(session_id, commits)
                IN  ~r.reply.saved_to_db =>
                        /\ r.db = Db
                        /\ AwaitingConfirmation(r.session)
                        /\ process_message(r.session, r.db, session_id, Msg_yes,
                                           ClassifierFails, OracleFails,
                                           NoFailure).reply.saved_to_db

\* C36 as stated: whenever a session that is complete with intent
\* ride_request or ride_offer gets an affirmative token while the database
\* accepts every commit, the turn saves the ride and replies next_action
\* completed, also when the session id saved a ride of that kind before
AffirmativeTurnPersists ==
    [][ \A session_id \in SessionIds, message \in {Msg_yes, Msg_OK} :
           ( /\ session_id \in DOMAIN sessions
             /\ AwaitingConfirmation(sessions[session_id])
             /\ ProcessMessage(session_id, message, ClassifierFails,
                               OracleFails, NoFailure) )
           => /\ reply'.saved_to_db
              /\ reply'.next_action = "completed"
              /\ IF sessions[session_id].current_intent = "ride_request"
                 THEN Len(requests') = Len(requests) + 1
                 ELSE Len(offers') = Len(offers) + 1
      ]_vars

\* C37 as stated: in every reachable state a session whose is_complete flag
\* is true has current_intent ride_request or ride_offer, also when the
\* classification failed and the intent came from the keywords: a session
\* told that it awaits a confirmation takes an affirmative reply as one
CompleteHasRideIntent ==
    \A session_id \in DOMAIN sessions :
        sessions[session_id].is_complete =>
            sessions[session_id].current_intent \in {"ride_request", "ride_offer"}

\* C38 as stated: the reply of process_message has next_action completed if
\* and only if the turn saved a ride request or a ride offer; a turn that
\* handled a negative token, a correction or a failed save never says
\* completed
CompletedIffSaved ==
    (reply.next_action = "completed") <=> reply.saved_to_db

\* C39 as stated: every process_message call that returns appends exactly
\* one user message and then exactly one assistant message to the messages
\* of the session, in every branch (other intent, collecting details,
\* affirmative, correction while awaiting the confirmation)
TurnAppendsUserThenAssistant ==
    [][ \A session_id \in SessionIds, message \in Messages \ {Msg_no},
           cls \in ClassifierOutcomes, ext \in {OracleFails, EmptyPartial} :
           ( /\ ProcessMessage(session_id, message, cls, ext, NoFailure)
             /\ ~reply'.raised )
           => sessions'[session_id].messages
              = get_session(session_id).messages \o <<"user", "assistant">>
      ]_vars



-----------------------------------------------------------------------------
(* SpecExpiry: the turns of one user while time passes.  The cleanup thread *)
(* of MemoryManager wakes every cleanup_interval_minutes and deletes the    *)
(* sessions idle for more than session_timeout_minutes.                     *)

session_timeout_minutes == 30
cleanup_interval_minutes == 10

\* the clock advances by TickMinutes up to MaxMinutes
TickMinutes == 5
MaxMinutes == 40

\* an expiry that starts at the timeout itself
is_expired_atTimeout(session) ==
    now - session.last_activity >= session_timeout_minutes

\* ConversationSession.is_expired
is_expired(session) == now - session.last_activity > session_timeout_minutes

\* MemoryManager._cleanup_expired_sessions
cleanup_expired_sessions ==
    [x \in {y \in DOMAIN sessions : ~is_expired(sessions[y])} |-> sessions[x]]

\* the cleanup thread has woken and finds a session to delete
SweepDue ==
    /\ now % cleanup_interval_minutes = 0
    /\ \E x \in DOMAIN sessions : is_expired(sessions[x])

\* result keeps the list expired of the last cleanup (the ids it printed),
\* each with the session deleted
Sweep ==
    /\ SweepDue
    /\ sessions' = cleanup_expired_sessions
    /\ result' = [x \in {y \in DOMAIN sessions : is_expired(sessions[y])} |->
                     sessions[x]]
    /\ UNCHANGED <<dbVars, reply, now, loop, pc, call, snap, matchVars>>

Tick ==
    /\ ~SweepDue
    /\ now + TickMinutes <= MaxMinutes
    /\ now' = now + TickMinutes
    /\ UNCHANGED <<dbVars, sessions, reply, handlerVars, matchVars>>

RequestAnswer == [kind |-> "answer", intent |-> "ride_request", valid |-> TRUE]

ExpiryAnswers ==
    {[kind |-> "answer",
      details |-> Shape(Some(S_DHA), Some(S_Airport), None, None, None, None)],
     [kind |-> "answer", details |-> Only("time", Some(T_6pm))]}

\* the users whose sessions age side by side
ExpiryIds == {"u1", "u2"}

ExpiryNext ==
    \/ \E session_id \in ExpiryIds, message \in {Msg_needRide, T_6pm},
          ext \in ExpiryAnswers :
          ProcessMessage(session_id, message, RequestAnswer, ext, NoFailure)
    \/ \E session_id \in ExpiryIds : ClearSession(session_id)
    \/ Tick
    \/ Sweep

SpecExpiry == SessionInit /\ [][ExpiryNext]_vars

\* the session has been idle for no longer than the timeout
WithinTimeout(session) ==
    now - session.last_activity <= session_timeout_minutes

\* C29: a sweep evicts exactly the sessions whose now - last_activity exceeds
\* the timeout when it runs and leaves the others as they are, whatever
\* turns and clears came before it; no step removes a session that was read
\* or written within the timeout, and such a session is handed to its next
\* turn with the ride_details, intent and messages it had accumulated
SweepEvictsExpiredOnly ==
    [][ /\ Sweep =>
              /\ DOMAIN sessions' =
                    {x \in DOMAIN sessions : WithinTimeout(sessions[x])}
              /\ \A x \in DOMAIN sessions' : sessions'[x] = sessions[x]
        /\ \A x \in DOMAIN sessions :
              WithinTimeout(sessions[x]) =>
                 /\ x \in DOMAIN sessions'
                 /\ get_session(x).ride_details = sessions[x].ride_details
                 /\ get_session(x).current_intent = sessions[x].current_intent
                 /\ get_session(x).messages = sessions[x].messages
                 /\ (Tick \/ Sweep) => sessions'[x] = sessions[x]
      ]_vars

\* C29 witness: the cleanup has just deleted the session of u1, which held a
\* time, and left the session of u2, idle for exactly the timeout, with the
\* ends it had collected
SweepEvictsExpiredOnlyWitness ==
    /\ DOMAIN result = {"u1"}
    /\ result["u1"].ride_details # <<>>
    /\ DOMAIN sessions = {"u2"}
    /\ now - sessions["u2"].last_activity = session_timeout_minutes
    /\ IsValue(sessions["u2"].ride_details, "pickup_location")

\* C15 as stated: get_session on a session idle for longer than the timeout
\* returns a fresh session (no details, no intent, not complete, no
\* messages), whether or not the cleanup has run since; a session touched
\* within the timeout keeps its details
ExpiredSessionIsFresh ==
    \A session_id \in DOMAIN sessions :
        LET got == get_session(session_id)
        IN  IF is_expired(sessions[session_id])
            THEN /\ got.ride_details = <<>>
                 /\ got.current_intent = NoIntent
                 /\ ~got.is_complete
                 /\ got.messages = <<>>
            ELSE got.ride_details = sessions[session_id].ride_details



-----------------------------------------------------------------------------
(* SpecAppend: messages appended to the sessions of two users, a user        *)
(* message and the assistant's answer at a time (add_to_memory).             *)

max_messages_per_session == 50

\* the appends stop at MaxAppends messages in a session
MaxAppends == 60

\* add_to_memory: add_user_message, then add_assistant_message
AddToMemory(session_id) ==
    /\ Len(get_session(session_id).messages) + 2 <= MaxAppends
    /\ sessions' = (session_id :>
                       add_message(add_message(get_session(session_id), "user"),
                                   "assistant")) @@ sessions
    /\ UNCHANGED <<dbVars, reply, now, handlerVars, matchVars>>

AppendNext == \E session_id \in ExpiryIds : AddToMemory(session_id)

SpecAppend == SessionInit /\ [][AppendNext]_vars

\* C30 as stated: after any sequence of appends a session holds at most
\* max_messages_per_session messages (the oldest are dropped beyond that)
MessagesWithinCap ==
    \A session_id \in DOMAIN sessions :
        Len(sessions[session_id].messages) <= max_messages_per_session

-----------------------------------------------------------------------------
(* SpecSessionRace: one process_message turn of a user and the clear or      *)
(* delete of the same session.  The endpoints that call process_message are  *)
(* coroutines and run on the event loop; clear_session and delete_session    *)
(* (main.py) are plain functions, which FastAPI runs in worker threads, so   *)
(* they can run while the turn waits for the answer of the language model in *)
(* extract_information.  The turn is split there: TurnBegin is               *)
(* process_message up to chain.invoke, TurnFinish is the rest.  MemoryManager*)
(* takes its lock in get_session, clear_session and delete_session only, so  *)
(* each of those is one step.  pc is the position of the turn, call its      *)
(* inputs and the store it started from, snap the session object it holds,   *)
(* result what it found had happened to that object.                         *)

EndsAnswer ==
    [kind |-> "answer",
     details |-> Shape(Some(S_DHA), Some(S_Airport), None, None, None, None)]

\* the session of a user who asked for a ride and named its ends
CollectingSession ==
    process_message(NewSession, EmptyDb, "u1", Msg_needRide, RequestAnswer,
                    EndsAnswer, NoFailure).session

SessionRaceInit ==
    /\ now = 0
    /\ sessions \in {<<>>, [x \in SessionIds |-> CollectingSession]}
    /\ reply = NoReply
    /\ DbIdle /\ MatchIdle
    /\ loop = "" /\ pc = "idle" /\ call = <<>> /\ snap = <<>> /\ result = ""

\* process_message from add_user_message to the chain.invoke of
\* extract_information, for a turn that goes to the extraction
TurnBegin(session_id, message, cls, ext) ==
    /\ pc = "idle"
    /\ ~AwaitingConfirmation(get_session(session_id))
    /\ RunsExtraction(get_session(session_id), message, cls)
    /\ LET s == add_message(get_session(session_id), "user")
           c == IF Continues(s)
                THEN [session |-> s, intent |-> s.current_intent]
                ELSE classify_intent(s, message, cls)
       IN  /\ sessions' = (session_id :> c.session) @@ sessions
           /\ snap' = c.session
           /\ call' = [session_id |-> session_id, message |-> message,
                       cls |-> cls, ext |-> ext, intent |-> c.intent,
                       store |-> sessions]
    /\ pc' = "extracting"
    /\ UNCHANGED <<dbVars, reply, now, loop, result, matchVars>>

\* existing_details is the ride_details dict of the session object the turn
\* got before the call: emptied in place by a clear, untouched by a delete
existing_details ==
    IF call.session_id \in DOMAIN sessions
    THEN sessions[call.session_id].ride_details
    ELSE snap.ride_details

\* what happened to the session object since TurnBegin
Interference ==
    IF call.session_id \notin DOMAIN sessions THEN "delete"
    ELSE IF sessions[call.session_id] # snap THEN "clear"
    ELSE "none"

\* the rest of extract_information and of process_message: every memory
\* call looks the session up again (a new one after a delete); the except
\* branch reads the details of that session
TurnFinish ==
    /\ pc = "extracting"
    /\ LET cur == get_session(call.session_id)
           seen == IF call.ext.kind = "fail" THEN cur
                   ELSE [cur EXCEPT !.ride_details = existing_details]
           r == Extracted(call.intent,
                          extract_information(seen, call.intent, call.ext))
       IN  /\ sessions' = (call.session_id :> r.session) @@ sessions
           /\ reply' = r.reply
    /\ result' = Interference
    /\ pc' = "done"
    /\ UNCHANGED <<dbVars, now, loop, call, snap, matchVars>>

\* the worker thread runs while the turn waits, on the object the turn holds
Untouched ==
    /\ pc = "extracting"
    /\ call.session_id \in DOMAIN sessions
    /\ sessions[call.session_id] = snap

SessionRaceNext ==
    \/ \E session_id \in SessionIds, message \in {Msg_needRide, T_6pm, Msg_hi},
          cls \in ClassifierOutcomes, ext \in ExtractionOutcomes :
          TurnBegin(session_id, message, cls, ext)
    \/ TurnFinish
    \/ Untouched /\ ClearSession(call.session_id)
    \/ Untouched /\ DeleteSession(call.session_id)

SpecSessionRace == SessionRaceInit /\ [][SessionRaceNext]_vars

\* the session store after the turn and the operation, one after the other
TurnOn(store) ==
    LET session_id == call.session_id
        session == IF session_id \in DOMAIN store THEN store[session_id]
                   ELSE NewSession
    IN  (session_id :>
            process_message(session, Db, session_id, call.message, call.cls,
                            call.ext, NoFailure).session) @@ store

OperationOn(store, op) ==
    IF call.session_id \notin DOMAIN store THEN store
    ELSE IF op = "clear"
    THEN [store EXCEPT ![call.session_id] = clear(@)]
    ELSE [x \in (DOMAIN store) \ {call.session_id} |-> store[x]]

\* C16 as stated: when a turn and a clear or delete of the same session run
\* concurrently, the session store ends as if they had run one after the
\* other in some order
TurnAndClearSerialize ==
    (pc = "done" /\ result \in {"clear", "delete"}) =>
        \/ sessions = OperationOn(TurnOn(call.store), result)
        \/ sessions = TurnOn(OperationOn(call.store, result))
====
